---- MODULE Spec2Model ----
(***************************************************************************)
(* SkillScale: the asynchronous client (src/skillscale/client.py).         *)
(*                                                                         *)
(* One SkillScaleClient object living on one asyncio event loop.  Every    *)
(* action is one run of a coroutine between two suspension points: the     *)
(* event loop never interleaves anything inside such a run.  Suspension    *)
(* points of the code are: asyncio.sleep in connect, "await listener" in   *)
(* close, asyncio.wait_for in invoke, poller.poll in the listener.         *)
(* (send_multipart on a PUB socket and recv_multipart(NOBLOCK) complete    *)
(* at once, so awaiting them does not suspend.)                            *)
(*                                                                         *)
(* Time is discrete, one unit standing for default_timeout.  The model     *)
(* keeps no wall clock: a pending entry carries its age (time.time() minus *)
(* created_at) and a waiting invoke the time left on its wait_for timer;   *)
(* Tick lets one unit pass.                                                *)
(* uuid4() is modelled as a generator of fresh values.                     *)
(***************************************************************************)
EXTENDS Integers, Sequences, FiniteSets, TLC

\* ------------------------------------------------------------------ bounds
NumCalls == 2        \* invoke() calls made on the client
MaxConnects == 2     \* connect() calls made on the client
MaxCloses == 1       \* close() calls made on the client
LongTimeout == 4     \* a per-call timeout argument above the stale threshold
MaxRequests == 2     \* messages the dispatcher of the skill server receives
NumSubscribers == 3  \* SUB sockets connected to the proxy
MaxMessages == 2     \* messages published through the proxy
PipeHwm == 2         \* messages the PUSH socket queues for one worker (ZMQ_SNDHWM)
MaxBurst == 6        \* messages a server under load receives
MaxFrameMessages == 5 \* messages that reach the SUB socket of the server
MaxScans == 2        \* scan() calls on one SkillDiscovery

\* ------------------------------------------------------- program constants
DefaultTimeout == 1  \* ClientConfig.default_timeout (30.0 s = one unit)
StaleMultiplier == 2 \* ClientConfig.stale_multiplier
NumWorkers == 2      \* --workers, SKILLSCALE_WORKERS: its default
TimeoutSec == 120    \* --timeout, SKILLSCALE_TIMEOUT: its default

Calls == 1..NumCalls
Conns == 1..MaxConnects
Closers == 1..MaxCloses
Ids == 1..NumCalls
Subscribers == 1..NumSubscribers

ClientId == <<"AGENT_REPLY">>      \* ClientConfig.client_id
SkillTopic == <<"TOPIC">>          \* a skill topic
NoId == 0                          \* request_id absent from a payload (None)
UnknownId == NumCalls + 1          \* a request_id this client never issued
TimeoutArgs == {0, LongTimeout}    \* 0 is timeout=None
\* the (status, content) pairs of the responses servers send
Answers == {<<"success", "c1">>, <<"error", "c1">>, <<"partial", "c2">>}
NoMsg == <<>>

VARIABLES
    running,        \* self._running
    cur,            \* the socket pair self._pub/self._sub refer to (0: None)
    sockState,      \* socket pair -> "none" | "open" | "closed"
    subs,           \* socket pair -> topics its SUB socket subscribed to
    listenerTask,   \* self._listener_task (0: None)
    lstate,         \* listener task -> "none" | "polling" | "cancelling" | "stopped" | "failed"
    lsock,          \* listener task -> the socket pair its poller registered
    pending,        \* self._pending: request_id -> [call, age]
    nextId,         \* how many uuid4() values were drawn, plus one
    pc,             \* invoke call -> "idle" | "waiting" | "timedout" | "done"
    rid,            \* invoke call -> its request_id (0 before it has one)
    fut,            \* invoke call -> state of its future
    futVal,         \* invoke call -> the result or the exception text of the future
    left,           \* invoke call -> time left on the timer of its wait_for
    result,         \* invoke call -> what invoke returned or raised
    cstate,         \* connect call -> "idle" | "sleeping" | "done"
    clstate,        \* close call -> "idle" | "awaiting" | "done" | "raised"
    clwait,         \* close call -> the listener task it awaits
    published,      \* request frames the client published
    late,           \* invoke call -> the latest response that came for it after its
                    \* timer fired: <<listener branch taken, pc of the call then>>
    completions,    \* invoke call -> how often set_result/set_exception/cancel completed its future
    resolvedBy,     \* invoke call -> the frame with which the listener completed its future
    gather,         \* the invoke_parallel call: [state, tmo, results]
    seq,            \* the invoke_sequential call: [state, tmo, results]
    \* the skill server (server.py)
    srvRunning,     \* the global _running
    skills,         \* the skills parse_agents_md found: a list of names
    dstate,         \* the dispatcher loop of main(): "polling" | "exited"
    arrived,        \* how many messages the dispatcher received
    rr,             \* the worker whose pipe the PUSH socket serves next
    pipe,           \* worker -> messages pushed to its PULL socket, oldest first
    wstate,         \* worker -> "polling" | "executing" | "crashed" | "exited"
    wjob,           \* worker -> the request whose skill it executes
    taken,          \* the messages workers dequeued, with what their handling met
    runs,           \* the skill executables started: [n, skill, stdin]
    sent,           \* the frames workers published, oldest first: [n, topic, payload]
    ended,          \* how the child processes ended: [n, killed, exit]
    held,           \* the message the dispatcher holds in a push.send that blocks
    subIn,          \* the frames the server's SUB socket holds, oldest first
    pushed,         \* the pairs of frames the dispatcher sent on PUSH, oldest first
    subCount,       \* how many messages have reached the server's SUB socket
    \* the proxy (tests/conftest.py) with its publishers and subscribers
    xpubFilter,     \* subscriber -> the prefixes the XPUB socket filters its pipe by
    xpubIn,         \* subscription messages the XPUB socket holds for the proxy loop
    upFilter,       \* the prefixes the proxy has passed upstream to the publisher
    xsubIn,         \* messages the XSUB socket holds for the proxy loop
    xpubOut,        \* the frames sent on XPUB with SNDMORE, and the pipes they go to
    inbox,          \* subscriber -> the messages its SUB socket received
    pubLog,         \* the messages published: frames, subscriptions at that time
    \* skill discovery (skillscale/discovery.py) and a thread that reads it
    tree,           \* the skills directory: <<category, dir>> -> name in SKILL.md
    discSkills,     \* SkillDiscovery._skills: name -> SkillMetadata
    discTopics,     \* SkillDiscovery._topics: topic -> the skills of a TopicMetadata
    scanAt,         \* the entry scan() looks at next; 0 when no scan() runs
    topicMeta,      \* the skills of the TopicMetadata scan() is filling
    scans,          \* how many scan() calls were begun
    lastScan,       \* [skills, topics] as the last finished scan() left them
    seen            \* what the reading thread got: [skills, topics, last, new]

frameVars == <<subIn, pushed, subCount>>

srvVars == <<srvRunning, skills, dstate, arrived, rr, pipe, wstate, wjob,
             taken, runs, sent, ended, held, frameVars>>

proxyVars == <<xpubFilter, xpubIn, upFilter, xsubIn, xpubOut, inbox, pubLog>>

discVars == <<tree, discSkills, discTopics, scanAt, topicMeta, scans, lastScan,
              seen>>

clientVars == <<running, cur, sockState, subs, listenerTask, lstate, lsock,
                pending, nextId, pc, rid, fut, futVal, left, result, cstate,
                clstate, clwait, published, late, completions, resolvedBy,
                gather, seq, discVars>>

vars == <<clientVars, srvVars, proxyVars>>

sockVars == <<cur, sockState, subs>>
taskVars == <<listenerTask, lstate, lsock>>
callVars == <<nextId, pc, rid, fut, futVal, left, result, completions, resolvedBy, late>>
lifeVars == <<cstate, clstate, clwait>>

\* ----------------------------------------------------------------- helpers
IsPrefix(p, t) == Len(p) <= Len(t) /\ SubSeq(t, 1, Len(p)) = p

\* dict.get(key, default)
Get(obj, key, default) == IF key \in DOMAIN obj THEN obj[key] ELSE default

ErrOf(c) == IF c = "c1" THEN "e1" ELSE "e2"

\* asyncio.Future.done()
FutureDone(f) == f # "pending"

\* a generator that repeats itself
NewRequestIdRepeated(n) == 1

\* uuid.uuid4().hex: a value no earlier call of this client drew
NewRequestId(n) == n

\* wait_for(future, timeout=None): no timer at all
EffectiveTimeoutNone(t) == 0 - 1

\* timeout = timeout or self.config.default_timeout
EffectiveTimeout(t) == IF t = 0 THEN DefaultTimeout ELSE t

\* a request that names the skill topic as its reply_to
MakeRequestReplyToTopic(topic, id, sock) ==
    [topic |-> topic, request_id |-> id, reply_to |-> topic,
     intent |-> "intent", sock |-> sock]

\* the two frames invoke() sends: [topic, json.dumps({...})]
MakeRequest(topic, id, sock) ==
    [topic |-> topic, request_id |-> id, reply_to |-> ClientId,
     intent |-> "intent", sock |-> sock]

\* self._pending[request_id] = _PendingRequest(...)
RegisterPending(p, id, c, t) ==
    [r \in (DOMAIN p) \cup {id} |->
        IF r = id THEN [call |-> c, age |-> t] ELSE p[r]]

\* self._pending.pop(request_id, None)
PopPending(p, id) == [r \in (DOMAIN p) \ {id} |-> p[r]]

EmptyPending == [r \in {} |-> [call |-> 1, age |-> 0]]

\* ---------------------------------------------------------- skill discovery
\* the directories of the skills root that hold a SKILL.md, as
\* sorted(os.listdir(root)) and sorted(os.listdir(category_path)) give them
Entries == << <<<<"a", "-", "b">>, 1>>, <<<<"a", "-", "b">>, 2>>,
             <<<<"a", "_", "b">>, 1>>, <<<<"c">>, 1>> >>

\* the names a SKILL.md may declare; NoName for one without frontmatter or
\* without a name, for which _parse_skill_md returns None
SkillNames == {"x", "y"}
NoName == ""

\* the contents the skills root may have
Trees == [DOMAIN Entries -> SkillNames \cup {NoName}]

EmptyDict == [k \in {} |-> <<>>]
EmptyDiscovery == [skills |-> EmptyDict, topics |-> EmptyDict]
NoRead == [skills |-> EmptyDict, topics |-> EmptyDict, last |-> EmptyDiscovery,
           new |-> EmptyDiscovery, during |-> FALSE]

\* SkillDiscovery(skills_root): both dicts empty, no scan() yet
DiscoveryInit ==
    /\ tree = [i \in DOMAIN Entries |-> NoName]
    /\ discSkills = EmptyDict
    /\ discTopics = EmptyDict
    /\ scanAt = 0
    /\ topicMeta = <<>>
    /\ scans = 0
    /\ lastScan = EmptyDiscovery
    /\ seen = NoRead

\* ------------------------------------------------------------ initial state
\* no invoke_parallel call was made
NoGather == [state |-> "idle", tmo |-> 0, results |-> <<>>]

\* no invoke_sequential call was made
NoSeq == [state |-> "idle", tmo |-> 0, results |-> <<>>, error |-> <<"none", "">>]

\* SkillScaleClient.__init__
ClientInit ==
    /\ running = FALSE
    /\ cur = 0
    /\ sockState = [g \in Conns |-> "none"]
    /\ subs = [g \in Conns |-> {}]
    /\ listenerTask = 0
    /\ lstate = [t \in Conns |-> "none"]
    /\ lsock = [t \in Conns |-> 0]
    /\ pending = EmptyPending
    /\ nextId = 1
    /\ pc = [c \in Calls |-> "idle"]
    /\ rid = [c \in Calls |-> 0]
    /\ fut = [c \in Calls |-> "none"]
    /\ futVal = [c \in Calls |-> ""]
    /\ left = [c \in Calls |-> 0]
    /\ result = [c \in Calls |-> <<"none", "">>]
    /\ cstate = [k \in Conns |-> "idle"]
    /\ clstate = [j \in Closers |-> "idle"]
    /\ clwait = [j \in Closers |-> 0]
    /\ published = {}
    /\ late = [c \in Calls |-> <<"none", "">>]
    /\ completions = [c \in Calls |-> 0]
    /\ resolvedBy = [c \in Calls |-> NoMsg]
    /\ gather = NoGather
    /\ seq = NoSeq
    /\ DiscoveryInit

\* no skill server process
ServerOff ==
    /\ srvRunning = FALSE
    /\ skills = <<>>
    /\ dstate = "exited"
    /\ arrived = 0
    /\ rr = 1
    /\ pipe = <<>>
    /\ wstate = <<>>
    /\ wjob = <<>>
    /\ taken = {}
    /\ runs = {}
    /\ sent = <<>>
    /\ ended = {}
    /\ held = <<>>
    /\ subIn = <<>>
    /\ pushed = <<>>
    /\ subCount = 0

\* the XPUB socket between two messages
NoOut == [frames |-> <<>>, to |-> {}]

\* a proxy that has just been started: TestProxy.start
ProxyInit ==
    /\ xpubFilter = [s \in Subscribers |-> {}]
    /\ xpubIn = <<>>
    /\ upFilter = {}
    /\ xsubIn = <<>>
    /\ xpubOut = NoOut
    /\ inbox = [s \in Subscribers |-> <<>>]
    /\ pubLog = <<>>

\* a client on its own
Init == ClientInit /\ ServerOff /\ ProxyInit

\* ------------------------------------------------------------------ connect
\* a connect() that never takes the early return
AlreadyConnectedNever(r) == FALSE

\* if self._running: return
AlreadyConnected(r) == r

\* connect() up to "await asyncio.sleep(settle_time)".  The k-th connect call
\* that gets past the guard creates socket pair k.
ConnectBegin(k) ==
    /\ cstate[k] = "idle"
    /\ \A i \in Conns : i < k => cstate[i] # "idle"
    /\ IF AlreadyConnected(running)
       THEN /\ cstate' = [cstate EXCEPT ![k] = "done"]
            /\ UNCHANGED sockVars
       ELSE /\ cstate' = [cstate EXCEPT ![k] = "sleeping"]
            /\ cur' = k
            /\ sockState' = [sockState EXCEPT ![k] = "open"]
            /\ subs' = [subs EXCEPT ![k] = {ClientId}]
    /\ UNCHANGED <<running, taskVars, pending, callVars, clstate, clwait, published>>
    /\ UNCHANGED <<gather, seq, srvVars, proxyVars, discVars>>

\* connect() after the sleep: self._running = True; create_task(listener).
\* The new task registers self._sub with its poller.
ConnectResume(k) ==
    /\ cstate[k] = "sleeping"
    /\ cstate' = [cstate EXCEPT ![k] = "done"]
    /\ running' = TRUE
    /\ listenerTask' = k
    /\ lstate' = [lstate EXCEPT ![k] = "polling"]
    /\ lsock' = [lsock EXCEPT ![k] = cur]
    /\ UNCHANGED <<sockVars, pending, callVars, clstate, clwait,
                   published>>
    /\ UNCHANGED <<gather, seq, srvVars, proxyVars, discVars>>

\* -------------------------------------------------------------------- close
\* close() cancelling without a look at done()
CancelledByCloseUnguarded(p, f, c) == \E r \in DOMAIN p : p[r].call = c

\* for req in self._pending.values(): if not req.future.done(): req.future.cancel()
CancelledByClose(p, f, c) ==
    (\E r \in DOMAIN p : p[r].call = c) /\ ~FutureDone(f[c])

\* a close() that leaves the table as it is
ClearedPendingKept(p) == p

\* self._pending.clear()
ClearedPending(p) == EmptyPending

\* close() from the loop over self._pending to its end; it has no suspension point
CloseCleanup(j) ==
    /\ fut' = [c \in Calls |-> IF CancelledByClose(pending, fut, c)
                               THEN "cancelled" ELSE fut[c]]
    /\ completions' = [c \in Calls |-> IF CancelledByClose(pending, fut, c)
                                       THEN completions[c] + 1 ELSE completions[c]]
    /\ pending' = ClearedPending(pending)
    /\ sockState' = IF cur # 0 THEN [sockState EXCEPT ![cur] = "closed"]
                    ELSE sockState
    /\ clstate' = [clstate EXCEPT ![j] = "done"]
    /\ UNCHANGED <<cur, subs, nextId, pc, rid, futVal, left, result,
                   resolvedBy, late>>

\* "await self._listener_task" raised what the listener task died of
CloseRaise(j) ==
    /\ clstate' = [clstate EXCEPT ![j] = "raised"]
    /\ UNCHANGED <<sockVars, pending, callVars>>

\* close() up to "await self._listener_task"; awaiting a finished task does
\* not suspend
CloseBegin(j) ==
    /\ clstate[j] = "idle"
    /\ running' = FALSE
    /\ IF listenerTask = 0 \/ lstate[listenerTask] = "stopped"
       THEN CloseCleanup(j) /\ UNCHANGED <<lstate, clwait>>
       ELSE IF lstate[listenerTask] = "failed"
       THEN CloseRaise(j) /\ UNCHANGED <<lstate, clwait>>
       ELSE /\ lstate' = [lstate EXCEPT ![listenerTask] = "cancelling"]
            /\ clstate' = [clstate EXCEPT ![j] = "awaiting"]
            /\ clwait' = [clwait EXCEPT ![j] = listenerTask]
            /\ UNCHANGED <<sockVars, pending, callVars>>
    /\ UNCHANGED <<listenerTask, lsock, cstate, published>>
    /\ UNCHANGED <<gather, seq, srvVars, proxyVars, discVars>>

\* close() resumes when the listener task it awaits has finished
CloseResume(j) ==
    /\ clstate[j] = "awaiting"
    /\ lstate[clwait[j]] \in {"stopped", "failed"}
    /\ IF lstate[clwait[j]] = "failed" THEN CloseRaise(j) ELSE CloseCleanup(j)
    /\ UNCHANGED <<running, taskVars, cstate, clwait, published>>
    /\ UNCHANGED <<gather, seq, srvVars, proxyVars, discVars>>

\* ------------------------------------------------------- invoke_sequential
\* what invoke() raised, as opposed to what it returned
IsError(r) == r[1] # "ok"

\* a loop that starts every invoke without awaiting the one before
SeqMayStartEager(c) == TRUE

\* for topic, intent in requests: result = await self.invoke(...): the body
\* runs for request c when the invokes before it have returned
SeqMayStart(c) ==
    \A i \in Calls : i < c => pc[i] = "done" /\ ~IsError(result[i])

\* the calls 1..NumCalls are the members of the invoke_sequential call, if
\* there is one: member c is started by the loop, with the timeout of the call
StartedBySeq(c, tmo) ==
    seq.state # "idle" => seq.state = "running" /\ SeqMayStart(c) /\ tmo = seq.tmo

\* ------------------------------------------------------------------- invoke
\* invoke() without its guard
ConnectedUnchecked(r) == TRUE

\* if not self._running: raise ConnectionError(...)
Connected(r) == r

\* invoke() on a client whose _running is False: raise ConnectionError
InvokeNotConnected(c) ==
    /\ pc[c] = "idle"
    /\ \A i \in Calls : i < c => pc[i] # "idle"
    /\ StartedBySeq(c, seq.tmo)
    /\ ~Connected(running)
    /\ pc' = [pc EXCEPT ![c] = "done"]
    /\ result' = [result EXCEPT ![c] = <<"NotConnected", "">>]
    /\ UNCHANGED <<running, sockVars, taskVars, pending, nextId, rid, fut,
                   futVal, left, completions, resolvedBy, late, lifeVars,
                   published>>
    /\ UNCHANGED <<gather, seq, srvVars, proxyVars, discVars>>

\* invoke() from its first line to "await asyncio.wait_for(future, timeout)":
\* draw the request_id, register the pending entry, send the two frames.
\* A send on a closed socket (or on None) raises and invoke ends there, the
\* entry still in the table.
InvokeStart(c, topic, tmo) ==
    /\ pc[c] = "idle"
    /\ \A i \in Calls : i < c => pc[i] # "idle"
    /\ Connected(running)
    /\ gather.state = "gathering" => tmo = gather.tmo
    /\ StartedBySeq(c, tmo)
    /\ LET id == NewRequestId(nextId) IN
       /\ nextId' = nextId + 1
       /\ rid' = [rid EXCEPT ![c] = id]
       /\ pending' = RegisterPending(pending, id, c, 0)
       /\ fut' = [fut EXCEPT ![c] = "pending"]
       /\ IF cur # 0 /\ sockState[cur] = "open"
          THEN /\ published' = published \cup {MakeRequest(topic, id, cur)}
               /\ pc' = [pc EXCEPT ![c] = "waiting"]
               /\ left' = [left EXCEPT ![c] = EffectiveTimeout(tmo)]
               /\ UNCHANGED result
          ELSE /\ pc' = [pc EXCEPT ![c] = "done"]
               /\ result' = [result EXCEPT ![c] = <<"SendError", "">>]
               /\ UNCHANGED <<published, left>>
    /\ UNCHANGED <<running, sockVars, taskVars, futVal, completions,
                   resolvedBy, late, lifeVars>>
    /\ UNCHANGED <<gather, seq, srvVars, proxyVars, discVars>>

\* the timer of wait_for fires: the future is cancelled; the invoke task
\* is woken and runs its except clause in a later turn of the event loop
TimerFire(c) ==
    /\ pc[c] = "waiting"
    /\ ~FutureDone(fut[c])
    /\ left[c] = 0
    /\ fut' = [fut EXCEPT ![c] = "cancelled"]
    /\ completions' = [completions EXCEPT ![c] = @ + 1]
    /\ pc' = [pc EXCEPT ![c] = "timedout"]
    /\ UNCHANGED <<running, sockVars, taskVars, pending, nextId, rid, futVal,
                   left, result, resolvedBy, late, lifeVars,
                   published>>
    /\ UNCHANGED <<gather, seq, srvVars, proxyVars, discVars>>

\* a handler that forgets the pop
TimeoutCleanupLeak(p, id) == p

\* except asyncio.TimeoutError: the body of the clause
TimeoutCleanup(p, id) == PopPending(p, id)

\* except asyncio.TimeoutError: self._pending.pop(request_id, None); raise
InvokeTimeout(c) ==
    /\ pc[c] = "timedout"
    /\ pending' = TimeoutCleanup(pending, rid[c])
    /\ pc' = [pc EXCEPT ![c] = "done"]
    /\ result' = [result EXCEPT ![c] = <<"Timeout", "">>]
    /\ UNCHANGED <<running, sockVars, taskVars, nextId, rid, fut, futVal,
                   left, completions, resolvedBy, late, lifeVars,
                   published>>
    /\ UNCHANGED <<gather, seq, srvVars, proxyVars, discVars>>

\* what "await wait_for(future)" gives for a future that is done
Outcome(f, v) ==
    IF f = "result" THEN <<"ok", v>>
    ELSE IF f = "exception" THEN <<"SkillError", v>>
    ELSE <<"Cancelled", "">>

\* wait_for returns the result of the future, or raises its exception, or
\* raises CancelledError: none of them is caught by "except TimeoutError";
\* the timer is cancelled
InvokeReturn(c) ==
    /\ pc[c] = "waiting"
    /\ FutureDone(fut[c])
    /\ pc' = [pc EXCEPT ![c] = "done"]
    /\ result' = [result EXCEPT ![c] = Outcome(fut[c], futVal[c])]
    /\ left' = [left EXCEPT ![c] = 0]
    /\ UNCHANGED <<running, sockVars, taskVars, pending, nextId, rid, fut,
                   futVal, completions, resolvedBy, late, lifeVars,
                   published>>
    /\ UNCHANGED <<gather, seq, srvVars, proxyVars, discVars>>

\* the task that awaits invoke() is cancelled while invoke() waits: the
\* future is cancelled with it and CancelledError leaves invoke(), past
\* "except asyncio.TimeoutError"
InvokeCancelled(c) ==
    /\ pc[c] = "waiting"
    /\ ~FutureDone(fut[c])
    /\ fut' = [fut EXCEPT ![c] = "cancelled"]
    /\ completions' = [completions EXCEPT ![c] = @ + 1]
    /\ pc' = [pc EXCEPT ![c] = "done"]
    /\ result' = [result EXCEPT ![c] = <<"Cancelled", "">>]
    /\ left' = [left EXCEPT ![c] = 0]
    /\ UNCHANGED <<running, sockVars, taskVars, pending, nextId, rid, futVal,
                   resolvedBy, late, lifeVars, published>>
    /\ UNCHANGED <<gather, seq, srvVars, proxyVars, discVars>>

\* ----------------------------------------------------------- invoke_parallel
\* gather() that lets the first exception of a member through
ReturnExceptionsOff == FALSE

\* asyncio.gather(*tasks, return_exceptions=True)
ReturnExceptions == TRUE

\* gather() is done when every member is, or, without return_exceptions, as
\* soon as a member raised
GatherReady ==
    /\ gather.state = "gathering"
    /\ \/ \A c \in Calls : pc[c] = "done"
       \/ ~ReturnExceptions /\ \E c \in Calls : pc[c] = "done" /\ IsError(result[c])

\* invoke_parallel(requests, timeout): one invoke per request, in the order
\* of the requests, each with the same timeout; the members are the calls
\* 1..NumCalls
InvokeParallelBegin(tmo) ==
    /\ gather.state = "idle"
    /\ \A c \in Calls : pc[c] = "idle"
    /\ gather' = [state |-> "gathering", tmo |-> tmo, results |-> <<>>]
    /\ UNCHANGED <<running, sockVars, taskVars, pending, callVars, lifeVars,
                   published, seq, srvVars, proxyVars, discVars>>

\* "return await asyncio.gather(...)": the list of the members' results and
\* exceptions in the order of the members, or the exception gather() let through
GatherDone ==
    /\ GatherReady
    /\ gather' = IF ReturnExceptions \/ \A c \in Calls : ~IsError(result[c])
                 THEN [gather EXCEPT !.state = "returned",
                                     !.results = [c \in Calls |-> result[c]]]
                 ELSE [gather EXCEPT !.state = "raised"]
    /\ UNCHANGED <<running, sockVars, taskVars, pending, callVars, lifeVars,
                   published, seq, srvVars, proxyVars, discVars>>

\* ------------------------------------------------- invoke_sequential, go on
\* the loop of invoke_sequential can go on: to its next invoke, to its
\* return, or to its end by the exception of an invoke
SeqReady ==
    /\ seq.state = "running"
    /\ \/ \E c \in Calls : pc[c] = "idle" /\ SeqMayStart(c)
       \/ \A c \in Calls : pc[c] = "done"
       \/ \E c \in Calls : pc[c] = "done" /\ IsError(result[c])

\* invoke_sequential(requests, timeout) up to its first invoke
InvokeSequentialBegin(tmo) ==
    /\ seq.state = "idle"
    /\ gather.state = "idle"
    /\ \A c \in Calls : pc[c] = "idle"
    /\ seq' = [NoSeq EXCEPT !.state = "running", !.tmo = tmo]
    /\ UNCHANGED <<running, sockVars, taskVars, pending, callVars, lifeVars,
                   published, gather, srvVars, proxyVars, discVars>>

\* "return results" after the last invoke, or the exception of the invoke
\* that failed, which nothing in invoke_sequential catches
SeqDone ==
    /\ seq.state = "running"
    /\ \/ /\ \A c \in Calls : pc[c] = "done" /\ ~IsError(result[c])
          /\ seq' = [seq EXCEPT !.state = "returned",
                                !.results = [c \in Calls |-> result[c][2]]]
       \/ \E c \in Calls :
             /\ pc[c] = "done" /\ IsError(result[c])
             /\ \A i \in Calls : i < c => ~(pc[i] = "done" /\ IsError(result[i]))
             /\ seq' = [seq EXCEPT !.state = "raised", !.error = result[c]]
    /\ UNCHANGED <<running, sockVars, taskVars, pending, callVars, lifeVars,
                   published, gather, srvVars, proxyVars, discVars>>

\* ----------------------------------------------------------------- gc_stale
\* a collector that also takes the entries that are exactly at the threshold
IsStaleAtThreshold(age) == age >= DefaultTimeout * StaleMultiplier

\* cutoff = time.time() - default_timeout * stale_multiplier;
\* req.created_at < cutoff, in terms of the age time.time() - req.created_at
IsStale(age) == age > DefaultTimeout * StaleMultiplier

\* ages above the stale threshold need not be told apart
MaxAge == DefaultTimeout * StaleMultiplier + 1

\* stale_ids = [rid for rid, req in self._pending.items() if req.created_at < cutoff]
StaleIds(p) == {r \in DOMAIN p : IsStale(p[r].age)}

\* if not req.future.done(): req.future.cancel()
GcCancels(p, f, c) ==
    (\E r \in StaleIds(p) : p[r].call = c) /\ ~FutureDone(f[c])

GcStale ==
    /\ pending' = [r \in (DOMAIN pending) \ StaleIds(pending) |-> pending[r]]
    /\ fut' = [c \in Calls |-> IF GcCancels(pending, fut, c)
                               THEN "cancelled" ELSE fut[c]]
    /\ completions' = [c \in Calls |-> IF GcCancels(pending, fut, c)
                                       THEN completions[c] + 1 ELSE completions[c]]
    /\ UNCHANGED <<running, sockVars, taskVars, nextId, pc, rid, futVal,
                   left, result, resolvedBy, late, lifeVars,
                   published>>
    /\ UNCHANGED <<gather, seq, srvVars, proxyVars, discVars>>

\* -------------------------------------------------------------- other peers
\* [reply_to, make_response(request_id, status, content, error)]
Response(topic, id, s, c) ==
    <<topic, [json |-> "object",
              obj |-> [request_id |-> id, status |-> s, content |-> c,
                       error |-> ErrOf(c)]]>>

\* what servers answer to a request they received: worker_thread's
\* pub.send_multipart([reply_to, make_response(...)])
ServerResponses(reqs) ==
    {Response(p.reply_to, p.request_id, a[1], a[2]) : p \in reqs, a \in Answers}

\* frames a peer may publish that are no well-formed response to the client.
\* A peer knows no request_id but those of the requests published, and the
\* servers that know one publish on the reply_to of its request.
OddFrames(ids) ==
    {<<ClientId>>,
     <<ClientId, [json |-> "invalid", obj |-> [status |-> "success"]]>>,
     <<ClientId, [json |-> "array", obj |-> [status |-> "success"]]>>,
     <<ClientId, [json |-> "object",
                  obj |-> [status |-> "success", content |-> "c1", error |-> "e1"]]>>,
     Response(ClientId, UnknownId, "success", "c1"),
     Response(ClientId \o <<"x">>, UnknownId, "success", "c2")}
    \cup {<<ClientId, [json |-> "object",
                       obj |-> [request_id |-> i, content |-> "c1", error |-> "e1"]]>> : i \in ids}
    \cup {Response(SkillTopic, i, "success", "c2") : i \in ids}

\* the frames that may reach the proxy, given the requests published so far;
\* each may come at any time and any number of times
Arriving(reqs) ==
    ServerResponses(reqs) \cup OddFrames({p.request_id : p \in reqs})

\* ----------------------------------------------------------------- listener
\* the content read from the wrong field
ContentOfError(m) == Get(m[2].obj, "error", "")

\* payload.get("request_id"), .get("status", "unknown"), .get("content", ""),
\* .get("error", "")
RequestIdOf(m) == Get(m[2].obj, "request_id", NoId)
StatusOf(m) == Get(m[2].obj, "status", "unknown")
ContentOf(m) == Get(m[2].obj, "content", "")
ErrorOf(m) == Get(m[2].obj, "error", "")

\* if request_id and request_id in self._pending
Known(p, id) == id # NoId /\ id \in DOMAIN p

\* every status but "error" taken for a success
IsSuccessLenient(status) == status # "error"

\* if status == "success"
IsSuccess(status) == status = "success"

\* a listener that completes whatever future it finds
ListenerSkipsNever(f) == FALSE

\* if not pending.future.done()
ListenerSkips(f) == FutureDone(f)

\* the branch of the listener body a received message takes
ListenerBranch(m, p, f) ==
    IF Len(m) < 2 THEN "malformed"
    ELSE IF m[2].json = "invalid" THEN "invalid_json"
    ELSE IF m[2].json # "object" THEN "listener_error"
    ELSE IF ~Known(p, RequestIdOf(m)) THEN "unknown_request_id"
    ELSE IF ListenerSkips(f[p[RequestIdOf(m)].call]) THEN "future_done"
    ELSE IF IsSuccess(StatusOf(m)) THEN "set_result"
    ELSE "set_exception"

\* a listener that empties the table at a request_id it does not know
PendingAfterUnknownClears(b, p, id) ==
    IF b \in {"future_done", "set_result", "set_exception"} THEN PopPending(p, id)
    ELSE IF b = "unknown_request_id" THEN EmptyPending
    ELSE p

\* pending = self._pending.pop(request_id) in the branch of a known
\* request_id; no other branch touches the table
PendingAfter(b, p, id) ==
    IF b \in {"future_done", "set_result", "set_exception"} THEN PopPending(p, id)
    ELSE p

\* the timer of the call's wait_for has fired
TimedOut(c) == pc[c] = "timedout" \/ (pc[c] = "done" /\ result[c][1] = "Timeout")

\* the message parses to a JSON object that names the call's request_id
AnswersCall(m, c) ==
    Len(m) >= 2 /\ m[2].json = "object" /\ RequestIdOf(m) # NoId
    /\ RequestIdOf(m) = rid[c]

\* the SUB socket hands over the frames whose topic starts with a subscription
SubMatches(g, m) == \E s \in subs[g] : IsPrefix(s, m[1])

\* one turn of the listener loop in which poll() reported the message m (Next
\* draws m from the frames that may arrive): recv_multipart, json.loads, look
\* the request_id up, complete the future; then the test of
\* "while self._running"
ListenerRecv(t, m) ==
    /\ lstate[t] = "polling"
    /\ sockState[lsock[t]] = "open"
    /\ SubMatches(lsock[t], m)
    /\ LET b == ListenerBranch(m, pending, fut)
           id == RequestIdOf(m)
           c == pending[id].call
       IN /\ pending' = PendingAfter(b, pending, id)
          /\ IF b \in {"set_result", "set_exception"}
             THEN /\ fut' = [fut EXCEPT ![c] = IF b = "set_result" THEN "result"
                                               ELSE "exception"]
                  /\ futVal' = [futVal EXCEPT ![c] = IF b = "set_result"
                                                     THEN ContentOf(m)
                                                     ELSE ErrorOf(m)]
                  /\ completions' = [completions EXCEPT ![c] = @ + 1]
                  /\ resolvedBy' = [resolvedBy EXCEPT ![c] = m]
             ELSE UNCHANGED <<fut, futVal, completions, resolvedBy>>
          /\ late' = [k \in Calls |-> IF TimedOut(k) /\ AnswersCall(m, k)
                                       THEN <<b, pc[k]>> ELSE late[k]]
    /\ lstate' = IF running THEN lstate ELSE [lstate EXCEPT ![t] = "stopped"]
    /\ UNCHANGED <<running, sockVars, listenerTask, lsock, nextId, pc, rid,
                   left, result, lifeVars, published>>
    /\ UNCHANGED <<gather, seq, srvVars, proxyVars, discVars>>

\* poll() timed out after a tick and "while self._running" is false
ListenerExit(t) ==
    /\ lstate[t] = "polling"
    /\ ~running
    /\ lstate' = [lstate EXCEPT ![t] = "stopped"]
    /\ UNCHANGED <<running, sockVars, listenerTask, lsock, pending, callVars,
                   lifeVars, published>>
    /\ UNCHANGED <<gather, seq, srvVars, proxyVars, discVars>>

\* the cancelled task is resumed: CancelledError at "await poller.poll" -> break
ListenerCancelled(t) ==
    /\ lstate[t] = "cancelling"
    /\ lstate' = [lstate EXCEPT ![t] = "stopped"]
    /\ UNCHANGED <<running, sockVars, listenerTask, lsock, pending, callVars,
                   lifeVars, published>>
    /\ UNCHANGED <<gather, seq, srvVars, proxyVars, discVars>>

\* poll() on a closed socket raises ZMQError, which nothing catches: the
\* task ends with that exception
ListenerPollError(t) ==
    /\ lstate[t] = "polling"
    /\ sockState[lsock[t]] = "closed"
    /\ lstate' = [lstate EXCEPT ![t] = "failed"]
    /\ UNCHANGED <<running, sockVars, listenerTask, lsock, pending, callVars,
                   lifeVars, published>>
    /\ UNCHANGED <<gather, seq, srvVars, proxyVars, discVars>>

\* the event loop has a callback ready to run: a due timer, or the wake-up of
\* a task whose awaited future is done or which was cancelled
LoopReady ==
    \/ \E c \in Calls : pc[c] = "waiting" /\ (left[c] = 0 \/ FutureDone(fut[c]))
    \/ \E c \in Calls : pc[c] = "timedout"
    \/ \E t \in Conns : lstate[t] = "cancelling"
    \/ \E j \in Closers : clstate[j] = "awaiting" /\ lstate[clwait[j]] \in {"stopped", "failed"}
    \/ GatherReady
    \/ SeqReady

\* one unit of time passes: every pending entry grows older, every running
\* wait_for timer comes nearer to firing.  The event loop runs its ready
\* callbacks long before a whole unit has passed.
Tick ==
    /\ ~LoopReady
    /\ pending' = [r \in DOMAIN pending |->
                      [pending[r] EXCEPT !.age = IF @ < MaxAge THEN @ + 1 ELSE @]]
    /\ left' = [c \in Calls |-> IF pc[c] = "waiting" /\ left[c] > 0
                                THEN left[c] - 1 ELSE left[c]]
    /\ UNCHANGED <<running, sockVars, taskVars, nextId, pc, rid, fut, futVal,
                   result, completions, resolvedBy, late, lifeVars,
                   published>>
    /\ UNCHANGED <<gather, seq, srvVars, proxyVars, discVars>>

\* ------------------------------------------------------------ specification
Next ==
    \/ \E k \in Conns : ConnectBegin(k)
    \/ \E k \in Conns : ConnectResume(k)
    \/ \E j \in Closers : CloseBegin(j)
    \/ \E j \in Closers : CloseResume(j)
    \/ \E c \in Calls : InvokeNotConnected(c)
    \/ \E c \in Calls, tmo \in TimeoutArgs : InvokeStart(c, SkillTopic, tmo)
    \/ \E c \in Calls : TimerFire(c)
    \/ \E c \in Calls : InvokeTimeout(c)
    \/ \E c \in Calls : InvokeReturn(c)
    \/ GcStale
    \/ \E t \in Conns, m \in Arriving(published) : ListenerRecv(t, m)
    \/ \E t \in Conns : ListenerExit(t)
    \/ \E t \in Conns : ListenerCancelled(t)
    \/ \E t \in Conns : ListenerPollError(t)
    \/ Tick

Spec == Init /\ [][Next]_vars

\* the client with an invoke_parallel call
NextParallel ==
    \/ Next
    \/ \E tmo \in TimeoutArgs : InvokeParallelBegin(tmo)
    \/ GatherDone

SpecParallel == Init /\ [][NextParallel]_vars

\* the client with an invoke_sequential call
NextSequential ==
    \/ Next
    \/ \E tmo \in TimeoutArgs : InvokeSequentialBegin(tmo)
    \/ SeqDone

SpecSequential == Init /\ [][NextSequential]_vars

\* the client with callers whose tasks may be cancelled
NextCancel ==
    \/ Next
    \/ \E c \in Calls : InvokeCancelled(c)

SpecCancel == Init /\ [][NextCancel]_vars

\* the event loop runs every callback that is ready, timers fire when due,
\* and time goes on
Fairness ==
    /\ WF_vars(Tick)
    /\ \A c \in Calls : WF_vars(TimerFire(c))
    /\ \A c \in Calls : WF_vars(InvokeTimeout(c))
    /\ \A c \in Calls : WF_vars(InvokeReturn(c))
    /\ \A t \in Conns : WF_vars(ListenerCancelled(t))
    /\ \A j \in Closers : WF_vars(CloseResume(j))

SpecLive == Init /\ [][Next]_vars /\ Fairness

\* ============================================================ skill server
\* --------------------------------------------------------- what it is given
Workers == 1..NumWorkers

SkillA == <<"a">>
SkillB == <<"b">>
NoSkill == <<>>                  \* None, and the empty string: both are falsy

\* the lists of skill names parse_agents_md may find in AGENTS.md
Installs == {<<>>, <<SkillA>>, <<SkillA, SkillB>>}

\* how the LLM call of the matcher may end: llm_utils cannot be imported,
\* chat() raises, or chat() replies with a text (a sequence of tokens)
LlmOutcomes ==
    {[kind |-> "import_error", text |-> <<>>], [kind |-> "raises", text |-> <<>>]}
    \cup {[kind |-> "reply", text |-> t] :
             t \in {<<"use", "b">>, <<"'", "B", "'">>, <<"none">>}}

\* how read_skill_md may end: a SkillDetail with or without scripts/run.py,
\* None (no SKILL.md, or one without frontmatter), or an exception of open()
\* or read() (a file that cannot be read or decoded)
SkillMdOutcomes == {"script", "no_script", "none", "raises"}

\* the intents of requests: a string that is no JSON, a string that is a JSON
\* object with some of the fields skill, data and task, a string that is a
\* JSON null, number or boolean, a string that is a JSON list, and an intent
\* that is a JSON number, not a string
IntentObjects ==
    {[data |-> "d"], [task |-> "t"], [data |-> "d", task |-> "t"],
     [skill |-> SkillB], [skill |-> SkillB, data |-> "d"],
     [skill |-> SkillB, task |-> "t"],
     [skill |-> SkillB, data |-> "d", task |-> "t"],
     [skill |-> NoSkill], [skill |-> NoSkill, task |-> "t"]}
TextIntent == [kind |-> "text", raw |-> "plain text", obj |-> <<>>]
Intents ==
    {TextIntent,
     [kind |-> "json_scalar", raw |-> "null", obj |-> <<>>],
     [kind |-> "json_list", raw |-> "[1]", obj |-> <<>>],
     [kind |-> "number", raw |-> "7", obj |-> <<>>]}
    \cup {[kind |-> "json_object", raw |-> "{...}", obj |-> o] : o \in IntentObjects}

\* the payload frames that may reach the server on its topic: no JSON, JSON
\* that is a number, an object without intent, an object without reply_to,
\* and objects with all three fields, from two clients
Payloads ==
    {[json |-> "invalid", obj |-> <<>>],
     [json |-> "number", obj |-> <<>>],
     [json |-> "object", obj |-> [request_id |-> "r1", reply_to |-> ClientId]],
     [json |-> "object", obj |-> [request_id |-> "r1", intent |-> TextIntent]],
     [json |-> "object", obj |-> [request_id |-> "r2", reply_to |-> <<"OTHER_REPLY">>,
                                  intent |-> TextIntent]]}
    \cup {[json |-> "object",
           obj |-> [request_id |-> "r1", reply_to |-> ClientId, intent |-> i]] :
             i \in Intents}

\* how the child process may end by itself: [exit code, stdout, stderr]
ChildEnds == {<<0, "out", <<"warn">>>>, <<1, "partial", <<"boom">>>>}

\* ---------------------------------------------------------------- strings
\* t in s
Contains(s, t) ==
    \E i \in 0..(Len(s) - Len(t)) : SubSeq(s, i + 1, i + Len(t)) = t

\* str.lower()
Lower(tok) == IF tok = "B" THEN "b" ELSE IF tok = "A" THEN "a" ELSE tok
LowerSeq(s) == [i \in 1..Len(s) |-> Lower(s[i])]

\* str.strip of the quote characters
RECURSIVE StripQuotes(_)
StripQuotes(s) ==
    IF s = <<>> THEN s
    ELSE IF s[1] = "'" THEN StripQuotes(Tail(s))
    ELSE IF s[Len(s)] = "'" THEN StripQuotes(SubSeq(s, 1, Len(s) - 1))
    ELSE s

\* "if not x"
Falsy(x) == x = NoSkill

Min(S) == CHOOSE x \in S : \A y \in S : x <= y

\* ------------------------------------------------------------------ matcher
\* for s in skills: if s.name in reply
MatchByContains(sk, reply) == {i \in 1..Len(sk) : Contains(reply, sk[i])}

\* reply_clean = reply.strip().strip(quotes).lower();
\* for s in skills: if s.name.lower() == reply_clean
MatchByClean(sk, reply) ==
    {i \in 1..Len(sk) : LowerSeq(sk[i]) = LowerSeq(StripQuotes(reply))}

\* match_skill_llm without the shortcut for a single skill
match_skill_llm_always_asks(task_text, sk, llm) ==
    IF sk = <<>> THEN NoSkill
    ELSE IF llm.kind # "reply" THEN sk[1]
    ELSE IF MatchByContains(sk, llm.text) # {} THEN sk[Min(MatchByContains(sk, llm.text))]
    ELSE IF MatchByClean(sk, llm.text) # {} THEN sk[Min(MatchByClean(sk, llm.text))]
    ELSE NoSkill

\* match_skill_llm(task_text, skills): None without skills, the only skill,
\* the first skill when the LLM cannot be asked, the first skill the reply
\* names, and the first skill when the reply names none
match_skill_llm(task_text, sk, llm) ==
    IF sk = <<>> THEN NoSkill
    ELSE IF Len(sk) = 1 THEN sk[1]
    ELSE IF llm.kind # "reply" THEN sk[1]
    ELSE IF MatchByContains(sk, llm.text) # {} THEN sk[Min(MatchByContains(sk, llm.text))]
    ELSE IF MatchByClean(sk, llm.text) # {} THEN sk[Min(MatchByClean(sk, llm.text))]
    ELSE sk[1]

\* ----------------------------------------------------------------- protocol
\* parse_request: the dict ("ok"), None ("none"), or the TypeError of
\* "request_id" not in j for a j that is no container ("raises")
parse_request(payload) ==
    IF payload.json = "invalid" THEN "none"
    ELSE IF payload.json # "object" THEN "raises"
    ELSE IF {"request_id", "reply_to", "intent"} \subseteq DOMAIN payload.obj
    THEN "ok"
    ELSE "none"

\* make_response (the timestamp left out)
make_response(request_id, status, content, error) ==
    [json |-> "object",
     obj |-> [request_id |-> request_id, status |-> status,
              content |-> content, error |-> error]]

\* ------------------------------------------------------------------- intent
\* json.loads(intent) gave a dict
IsObject(intent) == intent.kind = "json_object"

\* skill_name after "if 'skill' in intent_json: skill_name = intent_json['skill']"
ExplicitSkill(intent) ==
    IF IsObject(intent) /\ "skill" \in DOMAIN intent.obj
    THEN intent.obj.skill ELSE NoSkill

\* the worker calls match_skill_llm: for a dict without a truthy skill and
\* with a task, for an intent that is no JSON (JSONDecodeError) and for one
\* that is a JSON null, number or boolean (the TypeError of
\* "'skill' in intent_json").  A JSON list has no member "skill", "data" or
\* "task", and the matcher is not called.
AsksMatcher(intent) ==
    IF IsObject(intent)
    THEN Falsy(ExplicitSkill(intent)) /\ "task" \in DOMAIN intent.obj
    ELSE intent.kind \in {"text", "json_scalar"}

\* what the matcher is given
TaskText(intent) == IF IsObject(intent) THEN intent.obj.task ELSE intent.raw

\* skill_name at "if not skill_name"
SkillName(intent, sk, llm) ==
    IF AsksMatcher(intent) THEN match_skill_llm(TaskText(intent), sk, llm)
    ELSE ExplicitSkill(intent)

\* an executable fed the task although there is data
ExecInputTaskFirst(intent) ==
    IF IsObject(intent) /\ "task" \in DOMAIN intent.obj THEN intent.obj.task
    ELSE IF IsObject(intent) /\ "data" \in DOMAIN intent.obj THEN intent.obj.data
    ELSE intent.raw

\* exec_input: intent, or intent_json["data"], or intent_json["task"]
ExecInput(intent) ==
    IF IsObject(intent) /\ "data" \in DOMAIN intent.obj THEN intent.obj.data
    ELSE IF IsObject(intent) /\ "task" \in DOMAIN intent.obj THEN intent.obj.task
    ELSE intent.raw

\* entry = next((s for s in skills if s.name == skill_name), None): its
\* place in the list, 0 for None
FindEntry(sk, name) ==
    IF \E i \in 1..Len(sk) : sk[i] = name
    THEN Min({i \in 1..Len(sk) : sk[i] = name}) ELSE 0

\* ---------------------------------------------------------------- execution
ExecutionResult(success, exit_code, stdout, stderr) ==
    [success |-> success, exit_code |-> exit_code, stdout |-> stdout,
     stderr |-> stderr]

\* execute_skill with no script_path
NoScriptResult(name) ==
    ExecutionResult(FALSE, 0 - 1, "", <<"No scripts/run.py found for skill: ">> \o name)

\* except Exception as e: subprocess.run raised something else than
\* TimeoutExpired, before a child was started or while its output was read
RunRaisedResult == ExecutionResult(FALSE, 0 - 1, "", <<"Skill execution failed: ", "e">>)

\* except subprocess.TimeoutExpired
TimeoutResult ==
    ExecutionResult(FALSE, 0 - 1, "",
                    <<"Skill execution timed out after ", ToString(TimeoutSec), "s">>)

\* subprocess.run returned: success=(proc.returncode == 0)
ExitedResult(e) == ExecutionResult(e[1] = 0, e[1], e[2], e[3])

\* the response the worker builds from the result of execute_skill
ResponseOf(request_id, res) ==
    IF res.success
    THEN make_response(request_id, "success", res.stdout, <<>>)
    ELSE make_response(request_id, "error", "",
                       <<"Skill execution failed (exit=", ToString(res.exit_code), "): ">>
                       \o res.stderr)

NoMatchError == <<"No matching skill found">>
NotFoundError(name) == <<"Skill '">> \o name \o <<"' not found">>
CannotLoadError(name) == <<"Could not load SKILL.md for '">> \o name \o <<"'">>

\* ------------------------------------------------------------ server state
NoJob == [n |-> 0, request_id |-> "", reply_to |-> <<>>, skill |-> <<>>,
          stdin |-> ""]
NoLlm == [kind |-> "not_asked", text |-> <<>>]
NoExit == <<0 - 1, "", <<>>>>

\* main() up to "Ready. Listening for intents": the skills of AGENTS.md are
\* parsed, the sockets set up, the workers started
ServerInit ==
    /\ srvRunning = TRUE
    /\ skills \in Installs
    /\ dstate = "polling"
    /\ arrived = 0
    /\ rr = 1
    /\ pipe = [w \in Workers |-> <<>>]
    /\ wstate = [w \in Workers |-> "polling"]
    /\ wjob = [w \in Workers |-> NoJob]
    /\ taken = {}
    /\ runs = {}
    /\ sent = <<>>
    /\ ended = {}
    /\ held = <<>>
    /\ subIn = <<>>
    /\ pushed = <<>>
    /\ subCount = 0

InitServer == ClientInit /\ ServerInit /\ ProxyInit

\* the workers whose PULL socket is open
Live == {w \in Workers : wstate[w] \in {"polling", "executing"}}

\* the workers whose pipe has room for a message
Room == {w \in Live : Len(pipe[w]) < PipeHwm}

\* the PUSH socket serves the pipes of its peers in turn, passing over a
\* pipe that is full
NextPipe == CHOOSE w \in Room :
                \A v \in Room : (w - rr) % NumWorkers <= (v - rr) % NumWorkers

\* "while _running" at the top of a loop
LoopTop(state) == IF srvRunning THEN state ELSE "exited"

\* ---------------------------------------------------------------- dispatcher
\* _signal_handler
Stop ==
    /\ srvRunning
    /\ srvRunning' = FALSE
    /\ UNCHANGED <<clientVars, proxyVars, frameVars, skills, dstate, arrived, rr, pipe, wstate, wjob,
                   taken, runs, sent, ended, held>>

\* one turn of the main loop in which sub.poll reported a message: the two
\* frames are received and pushed to the pipe of one worker.  push.send is
\* a blocking send: when every pipe is full it does not return until a
\* worker has made room.
ReceiveUpTo(p, max) ==
    /\ dstate = "polling"
    /\ arrived < max
    /\ Live # {}
    /\ arrived' = arrived + 1
    /\ IF Room # {}
       THEN /\ pipe' = [pipe EXCEPT ![NextPipe] =
                                  Append(@, [n |-> arrived + 1, payload |-> p])]
            /\ rr' = (NextPipe % NumWorkers) + 1
            /\ dstate' = LoopTop("polling")
            /\ UNCHANGED held
       ELSE /\ held' = <<[n |-> arrived + 1, payload |-> p]>>
            /\ dstate' = "blocked"
            /\ UNCHANGED <<pipe, rr>>
    /\ UNCHANGED <<clientVars, proxyVars, frameVars, srvRunning, skills, wstate, wjob, taken, runs, sent,
                   ended>>

Receive(p) == ReceiveUpTo(p, MaxRequests)

\* a worker has taken a message from its pipe: the push.send the dispatcher
\* is blocked in queues the message it holds and returns
SendReturns ==
    /\ dstate = "blocked"
    /\ Room # {}
    /\ pipe' = [pipe EXCEPT ![NextPipe] = Append(@, held[1])]
    /\ rr' = (NextPipe % NumWorkers) + 1
    /\ held' = <<>>
    /\ dstate' = LoopTop("polling")
    /\ UNCHANGED <<clientVars, proxyVars, frameVars, srvRunning, skills, arrived, wstate, wjob, taken,
                   runs, sent, ended>>

\* sub.poll(250) timed out and "while _running" is false
DispatcherExit ==
    /\ dstate = "polling"
    /\ ~srvRunning
    /\ dstate' = "exited"
    /\ UNCHANGED <<clientVars, proxyVars, frameVars, srvRunning, skills, arrived, rr, pipe, wstate,
                   wjob, taken, runs, sent, ended, held>>

\* -------------------------------------------------------------------- worker
\* pub.send_multipart([topic.encode(), resp.encode()]) for the message n
Publish(n, topic, resp) ==
    sent' = Append(sent, [n |-> n, topic |-> topic, payload |-> resp])

\* a worker that answers on the topic the request came on
ResponseTopicOfServer(req) == SkillTopic

\* the topic frame of every response: reply_to = req["reply_to"]
ResponseTopic(req) == req.reply_to

\* pull.poll(500) timed out and "while _running" is false
WorkerExit(w) ==
    /\ wstate[w] = "polling"
    /\ ~srvRunning
    /\ wstate' = [wstate EXCEPT ![w] = "exited"]
    /\ UNCHANGED <<clientVars, proxyVars, frameVars, srvRunning, skills, dstate, arrived, rr, pipe,
                   wjob, taken, runs, sent, ended, held>>

\* a worker that starts the child and goes back to its loop
DuringRunDetached(w) == "polling"

\* subprocess.run returns when the child has exited or was killed: the
\* worker thread does nothing else until then
DuringRun(w) == "executing"

\* one turn of the worker loop in which pull.poll reported a message, from
\* pull.recv to the "continue" after a response, to the exception that ends
\* the thread, or to the start of the child process of execute_skill.
\* llm, md and spawn are what the matcher's LLM call, read_skill_md and the
\* start of the child process meet.
WorkerDequeue(w, llm, md, spawn) ==
    /\ wstate[w] = "polling"
    /\ pipe[w] # <<>>
    /\ LET msg == Head(pipe[w])
           parsed == parse_request(msg.payload)
           req == msg.payload.obj
           asked == parsed = "ok" /\ req.intent.kind # "number"
                    /\ AsksMatcher(req.intent) /\ Len(skills) > 1
           name == SkillName(req.intent, skills, llm)
           entry == FindEntry(skills, name)
           crash == /\ wstate' = [wstate EXCEPT ![w] = "crashed"]
                    /\ UNCHANGED <<wjob, runs, sent>>
           skip == /\ wstate' = [wstate EXCEPT ![w] = LoopTop("polling")]
                   /\ UNCHANGED <<wjob, runs, sent>>
           answer(resp) == /\ Publish(msg.n, ResponseTopic(req), resp)
                           /\ wstate' = [wstate EXCEPT ![w] = LoopTop("polling")]
                           /\ UNCHANGED <<wjob, runs>>
       IN /\ pipe' = [pipe EXCEPT ![w] = Tail(@)]
          /\ taken' = taken \cup {[n |-> msg.n, payload |-> msg.payload,
                                   llm |-> IF asked THEN llm ELSE NoLlm]}
          /\ IF parsed = "raises" THEN crash
             ELSE IF parsed = "none" THEN skip
             ELSE IF req.intent.kind = "number" THEN crash
             ELSE IF Falsy(name)
             THEN answer(make_response(req.request_id, "error", "", NoMatchError))
             ELSE IF entry = 0
             THEN answer(make_response(req.request_id, "error", "", NotFoundError(name)))
             ELSE IF md = "raises" THEN crash
             ELSE IF md = "none"
             THEN answer(make_response(req.request_id, "error", "", CannotLoadError(name)))
             ELSE IF md = "no_script"
             THEN answer(ResponseOf(req.request_id, NoScriptResult(skills[entry])))
             ELSE IF ~spawn
             THEN answer(ResponseOf(req.request_id, RunRaisedResult))
             ELSE /\ wstate' = [wstate EXCEPT ![w] = DuringRun(w)]
                  /\ wjob' = [wjob EXCEPT ![w] =
                                 [n |-> msg.n, request_id |-> req.request_id,
                                  reply_to |-> ResponseTopic(req),
                                  skill |-> skills[entry],
                                  stdin |-> ExecInput(req.intent)]]
                  /\ runs' = runs \cup {[n |-> msg.n, skill |-> skills[entry],
                                         stdin |-> ExecInput(req.intent)]}
                  /\ UNCHANGED sent
    /\ UNCHANGED <<clientVars, proxyVars, frameVars, srvRunning, skills, dstate, arrived, rr, ended, held>>

\* execute_skill returned res: the response is built and published, and the
\* worker is back at the top of its loop
WorkerRespond(w, res, killed, e) ==
    /\ Publish(wjob[w].n, wjob[w].reply_to, ResponseOf(wjob[w].request_id, res))
    /\ ended' = ended \cup {[n |-> wjob[w].n, killed |-> killed, exit |-> e]}
    /\ wstate' = [wstate EXCEPT ![w] = LoopTop("polling")]
    /\ wjob' = [wjob EXCEPT ![w] = NoJob]
    /\ UNCHANGED <<clientVars, proxyVars, frameVars, srvRunning, skills, dstate, arrived, rr, pipe,
                   taken, runs, held>>

\* the child process exits by itself with e
ChildExit(w, e) ==
    /\ wstate[w] = "executing"
    /\ WorkerRespond(w, ExitedResult(e), FALSE, e)

\* the child exits with code 0 after writing bytes to stdout that are no text
\* in the encoding of the server: communicate() raises UnicodeDecodeError
\* when it decodes them (text=True), and execute_skill catches it
ChildExitUndecodable(w) ==
    /\ wstate[w] = "executing"
    /\ WorkerRespond(w, RunRaisedResult, FALSE, <<0, "bytes", <<>>>>)

\* subprocess.run without a timeout
ExecTimeoutNever(w) == FALSE /\ UNCHANGED vars

\* timeout_sec passed and the child has not exited: subprocess.run kills it
\* and raises TimeoutExpired
ExecTimeout(w) ==
    /\ wstate[w] = "executing"
    /\ WorkerRespond(w, TimeoutResult, TRUE, NoExit)

\* the server at work: requests arrive and are handled, no signal comes
NextServer ==
    \/ \E p \in Payloads : Receive(p)
    \/ \E w \in Workers, llm \in LlmOutcomes, md \in SkillMdOutcomes,
          spawn \in BOOLEAN : WorkerDequeue(w, llm, md, spawn)
    \/ \E w \in Workers, e \in ChildEnds : ChildExit(w, e)
    \/ \E w \in Workers : ChildExitUndecodable(w)
    \/ \E w \in Workers : ExecTimeout(w)

SpecServer == InitServer /\ [][NextServer]_vars

\* a child that does not exit is killed when its time is up, and a worker
\* thread that can run does
FairnessServer ==
    /\ \A w \in Workers : WF_vars(ExecTimeout(w))

SpecServerLive == InitServer /\ [][NextServer]_vars /\ FairnessServer

\* the server with SIGINT or SIGTERM arriving at any moment
NextServerStop ==
    \/ NextServer
    \/ Stop
    \/ DispatcherExit
    \/ \E w \in Workers : WorkerExit(w)

SpecServerStop == InitServer /\ [][NextServerStop]_vars

\* a request with a plain-text intent
PlainRequest ==
    [json |-> "object",
     obj |-> [request_id |-> "r1", reply_to |-> ClientId, intent |-> TextIntent]]

\* the server under load: more requests arrive than its pipes hold, each
\* one well-formed, each skill run exiting with code 0
NextBackpressure ==
    \/ ReceiveUpTo(PlainRequest, MaxBurst)
    \/ \E w \in Workers :
          WorkerDequeue(w, [kind |-> "reply", text |-> <<"use", "b">>], "script", TRUE)
    \/ \E w \in Workers : ChildExit(w, <<0, "out", <<"warn">>>>)
    \/ SendReturns

SpecBackpressure == InitServer /\ [][NextBackpressure]_vars

\* the server under load with SIGINT or SIGTERM arriving at any moment
NextShutdown ==
    \/ NextBackpressure
    \/ Stop
    \/ DispatcherExit
    \/ \E w \in Workers : WorkerExit(w)

SpecShutdown == InitServer /\ [][NextShutdown]_vars

\* =================================================================== claims
InFlight(c) == pc[c] \in {"waiting", "timedout"}
Completed(c) == fut[c] \in {"result", "exception", "cancelled"}

\* C1: two invoke calls in flight at the same time have different
\* request_ids, and the listener completes a call's waiter only with a
\* response that carries that call's request_id.
C1_Correlation ==
    /\ \A c, d \in Calls : c # d /\ InFlight(c) /\ InFlight(d) => rid[c] # rid[d]
    /\ \A c \in Calls : resolvedBy[c] # NoMsg => RequestIdOf(resolvedBy[c]) = rid[c]

\* the call issued second is answered while the first still waits
C1_Witness ==
    /\ pc[1] = "waiting" /\ fut[1] = "pending"
    /\ pc[2] = "waiting" /\ resolvedBy[2] # NoMsg

\* C2: whatever the interleaving of listener, timeout, gc_stale and close,
\* the code completes the waiter of a pending entry once and never a second
\* time: a waiter is completed exactly when one completion was made, and the
\* waiter of an entry that has left the table is completed.
C2_ExactlyOnce ==
    \A c \in Calls :
        /\ completions[c] <= 1
        /\ Completed(c) <=> completions[c] = 1
        /\ rid[c] # 0 /\ rid[c] \notin DOMAIN pending => completions[c] = 1

\* a response met the waiter the timer had cancelled, and left it alone
C2_Witness ==
    \E c \in Calls : /\ late[c][1] = "future_done"
                     /\ pc[c] = "done"
                     /\ completions[c] = 1

\* C3: content returned by invoke was received by the listener in a response
\* with that call's request_id and status "success", on the reply topic.
C3_ContentFromOwnResponse ==
    \A c \in Calls :
        result[c][1] = "ok" =>
            /\ resolvedBy[c] # NoMsg
            /\ resolvedBy[c][1] = ClientId
            /\ Get(resolvedBy[c][2].obj, "request_id", NoId) = rid[c]
            /\ Get(resolvedBy[c][2].obj, "status", "") = "success"
            /\ Get(resolvedBy[c][2].obj, "content", "") = result[c][2]

C3_Witness ==
    \E c \in Calls : result[c] = <<"ok", "c1">> /\ rid[c] = 2

\* C4 as claimed: a response that comes after the timer of its invoke has
\* fired is discarded as an unknown request_id.
C4_LateIsUnknown ==
    \A c \in Calls : late[c][1] \in {"none", "unknown_request_id"}

\* C4 as amended: a response that comes after the timer of its invoke has
\* fired resolves no waiter, and the invoke fails with Timeout; the response
\* is discarded as an unknown request_id once the invoke has removed its
\* entry, and before that the listener pops the entry and leaves the
\* cancelled waiter alone.
C4_LateIsDropped ==
    \A c \in Calls :
        late[c][1] # "none" =>
            /\ late[c][1] \in {"future_done", "unknown_request_id"}
            /\ late[c][2] = "done" => late[c][1] = "unknown_request_id"
            /\ fut[c] = "cancelled"
            /\ resolvedBy[c] = NoMsg
            /\ pc[c] = "done" => result[c] = <<"Timeout", "">>

C4_Witness ==
    \E c \in Calls : /\ late[c] = <<"unknown_request_id", "done">>
                     /\ result[c] = <<"Timeout", "">>

\* C5: an invoke that failed with Timeout has left no entry in the pending
\* table.
C5_TimeoutRemovesEntry ==
    \A c \in Calls : result[c][1] = "Timeout" => rid[c] \notin DOMAIN pending

\* every invoke timed out, and the table is as empty as before them
C5_Witness ==
    /\ \A c \in Calls : result[c][1] = "Timeout"
    /\ DOMAIN pending = {}

\* C6: every invoke that was started terminates.
C6_InvokeTerminates ==
    \A c \in Calls : (pc[c] = "waiting") ~> (pc[c] = "done")

\* an invoke that nobody answered ended with Timeout
C6_Witness ==
    /\ \E c \in Calls : result[c][1] = "Timeout"
    /\ \A c \in Calls : resolvedBy[c] = NoMsg /\ late[c][1] = "none"

\* C7: a response for a pending request whose status is not "success" makes
\* the invoke fail with SkillError carrying the error text of the response.
C7_NonSuccessIsSkillError ==
    \A c \in Calls :
        resolvedBy[c] # NoMsg /\ StatusOf(resolvedBy[c]) # "success" =>
            /\ fut[c] = "exception"
            /\ futVal[c] = ErrorOf(resolvedBy[c])
            /\ pc[c] = "done" => result[c] = <<"SkillError", ErrorOf(resolvedBy[c])>>

C7_Witness ==
    \E c \in Calls : /\ result[c] = <<"SkillError", "e2">>
                     /\ StatusOf(resolvedBy[c]) = "partial"

C9_AfterClose ==
    [][\A j \in Closers :
          clstate[j] # "done" /\ clstate'[j] = "done" =>
              /\ DOMAIN pending' = {}
              /\ listenerTask' # 0 =>
                     lstate'[listenerTask'] \notin {"polling", "cancelling"}]_vars

\* C10: every request the client publishes names the client_id as reply_to,
\* and the SUB socket of the connection was subscribed to it before.
C10_StableReplyTo ==
    \A p \in published : p.reply_to = ClientId /\ ClientId \in subs[p.sock]

\* requests published before and after a reconnect
C10_Witness ==
    \E p, q \in published : p.sock # q.sock

\* ------------------------------------------------------------ server claims
\* the request that arrived as the n-th and was taken from a pipe
TakenAs(n) == (CHOOSE t \in taken : t.n = n).payload
WasTaken(n) == \E t \in taken : t.n = n
WellFormed(payload) ==
    /\ payload.json = "object"
    /\ {"request_id", "reply_to", "intent"} \subseteq DOMAIN payload.obj
Frames == {sent[i] : i \in 1..Len(sent)}
FramesOf(n) == {i \in 1..Len(sent) : sent[i].n = n}
FrameStatus(frame) == frame.payload.obj.status

\* C11: every response a worker publishes has the reply_to of its request as
\* its topic frame and carries the request_id of that request, whether it
\* reports a success or an error.
C11_ReplyToAndIdEchoed ==
    \A f \in Frames :
        /\ WasTaken(f.n)
        /\ WellFormed(TakenAs(f.n))
        /\ f.topic = TakenAs(f.n).obj.reply_to
        /\ f.payload.obj.request_id = TakenAs(f.n).obj.request_id

\* a success for one client and an error for another
C11_Witness ==
    \E f, g \in Frames :
        /\ f.topic = <<"OTHER_REPLY">> /\ FrameStatus(f) = "success"
        /\ f.payload.obj.request_id = "r2"
        /\ g.topic = ClientId /\ FrameStatus(g) = "error"
        /\ g.payload.obj.request_id = "r1"

\* the requests a worker has taken and is done with
Handled == {t \in taken : \A w \in Workers : wjob[w].n # t.n}

\* C12: every request that carries request_id, reply_to and intent and was
\* taken from the queue by a worker is answered with exactly one response,
\* whatever path the worker takes.
C12_ExactlyOneResponse ==
    \A t \in Handled : WellFormed(t.payload) => Cardinality(FramesOf(t.n)) = 1

\* the requests whose intent is a JSON object with a member skill
Explicit(payload) ==
    /\ WellFormed(payload)
    /\ payload.obj.intent.kind = "json_object"
    /\ "skill" \in DOMAIN payload.obj.intent.obj
RunsOf(n) == {r \in runs : r.n = n}
ErrorsOf(n) == {sent[i].payload.obj.error : i \in FramesOf(n)}

\* C13: for a request whose intent is a JSON object with a skill member, the
\* worker executes exactly the installed skill of that name and none else,
\* and without an installed skill of that name it runs nothing and answers
\* with an error that the skill was not found (either wording of the server
\* is taken for that).
C13_ExplicitSkillIsExecuted ==
    \A t \in Handled :
        Explicit(t.payload) =>
            LET name == t.payload.obj.intent.obj.skill
                installed == \E i \in 1..Len(skills) : skills[i] = name
            IN /\ \A r \in RunsOf(t.n) : r.skill = name
               /\ ~installed => /\ RunsOf(t.n) = {}
                                /\ FramesOf(t.n) # {} =>
                                     ErrorsOf(t.n) \subseteq
                                         {<<"Skill '">> \o name \o <<"' not found">>,
                                          <<"No matching skill found">>}

\* the requests for which the worker lets the matcher choose: task mode and
\* intents that are no JSON (or a JSON null, number or boolean)
MatcherChooses(payload) ==
    /\ WellFormed(payload)
    /\ LET intent == payload.obj.intent
       IN \/ intent.kind \in {"text", "json_scalar"}
          \/ /\ intent.kind = "json_object"
             /\ "task" \in DOMAIN intent.obj
             /\ "skill" \in DOMAIN intent.obj => intent.obj.skill = <<>>
SelectedErrors(name) ==
    {<<"Could not load SKILL.md for '">> \o name \o <<"'">>,
     <<"Skill execution failed (exit=", "-1", "): ",
       "No scripts/run.py found for skill: ">> \o name,
     <<"Skill execution failed (exit=", "-1", "): ", "Skill execution failed: ", "e">>}

TaskMode(payload) ==
    /\ WellFormed(payload)
    /\ payload.obj.intent.kind = "json_object"
    /\ "task" \in DOMAIN payload.obj.intent.obj
    /\ "skill" \notin DOMAIN payload.obj.intent.obj

\* the LLM was asked and its reply names no installed skill
RepliedNone(t) == t.llm.kind = "reply" /\ t.llm.text = <<"none">>

\* C15: in task mode, when there is no skill the matcher could name or the
\* matcher's LLM answers with a name that is no installed skill, the worker
\* answers "No matching skill" on reply_to and runs no executable.
C15_NoMatchIsAnError ==
    \A t \in Handled :
        TaskMode(t.payload) /\ (skills = <<>> \/ RepliedNone(t)) =>
            /\ RunsOf(t.n) = {}
            /\ \A i \in FramesOf(t.n) :
                   /\ sent[i].topic = t.payload.obj.reply_to
                   /\ sent[i].payload.obj.status = "error"
                   /\ sent[i].payload.obj.error = <<"No matching skill found">>

\* C16: the standard input of every executable a worker starts is the data
\* member of the intent if it has one, else its task member if it has one,
\* else the whole intent string, also when the intent is no JSON.
C16_ExecInput ==
    \A r \in runs :
        /\ WasTaken(r.n)
        /\ LET intent == TakenAs(r.n).obj.intent
               members == IF intent.kind = "json_object" THEN DOMAIN intent.obj ELSE {}
           IN r.stdin = IF "data" \in members THEN intent.obj.data
                        ELSE IF "task" \in members THEN intent.obj.task
                        ELSE intent.raw

\* executables fed from data although there is a task, and from the whole
\* intent of a request that is no JSON
C16_Witness ==
    \E r, q \in runs :
        /\ r.stdin = "d"
        /\ "task" \in DOMAIN TakenAs(r.n).obj.intent.obj
        /\ q.stdin = "plain text"

\* the children that exited by themselves, with the frame of their request
Exited == {x \in ended : ~x.killed}

\* C17: a response has the status success if and only if the executable of
\* its request exited with code 0; a success carries the whole captured
\* stdout as content and an empty error; the error response for another exit
\* code carries empty content and an error that contains the exit code and
\* the captured stderr.
C17_StatusFollowsExitCode ==
    /\ \A f \in Frames :
           f.payload.obj.status = "success" =>
               \E x \in Exited : x.n = f.n /\ x.exit[1] = 0
    /\ \A x \in Exited :
           /\ FramesOf(x.n) # {}
           /\ \A i \in FramesOf(x.n) :
                  LET resp == sent[i].payload.obj
                  IN IF x.exit[1] = 0
                     THEN /\ resp.status = "success"
                          /\ resp.content = x.exit[2]
                          /\ resp.error = <<>>
                     ELSE /\ resp.status = "error"
                          /\ resp.content = ""
                          /\ Contains(resp.error, <<ToString(x.exit[1])>>)
                          /\ Contains(resp.error, x.exit[3])

\* the response to a request whose child was killed at the timeout is on the
\* reply_to of the request, has the status error and reports the timeout
TimeoutIsReported ==
    \A x \in ended :
        x.killed =>
            /\ FramesOf(x.n) # {}
            /\ \A i \in FramesOf(x.n) :
                   /\ sent[i].topic = TakenAs(x.n).obj.reply_to
                   /\ sent[i].payload.obj.status = "error"
                   /\ Contains(sent[i].payload.obj.error,
                               <<"Skill execution timed out after ", "120", "s">>)

\* C18: a worker that is executing a skill does not stay so for ever: a
\* child that has not exited when the timeout expires is killed, an error
\* response that reports the timeout is published on the reply_to of the
\* request, and the worker is back at its loop.
C18_TimeoutEndsExecution ==
    /\ []TimeoutIsReported
    /\ \A w \in Workers : (wstate[w] = "executing") ~> (wstate[w] # "executing")

\* a child was killed at the timeout and its worker polls again
C18_Witness ==
    \E x \in ended, w \in Workers :
        /\ x.killed
        /\ wstate[w] = "polling"
        /\ \E i \in FramesOf(x.n) : sent[i].payload.obj.status = "error"
        /\ \A v \in Workers : wjob[v].n # x.n

\* C19: a payload that is no JSON is dropped without a response, and a
\* payload that is a JSON object without one of the required members is
\* answered on its reply_to, when it has one, with the status error and the
\* error "malformed request".
C19_MalformedIsReported ==
    \A t \in Handled :
        /\ t.payload.json = "invalid" => FramesOf(t.n) = {}
        /\ /\ t.payload.json = "object"
           /\ ~WellFormed(t.payload)
           /\ "reply_to" \in DOMAIN t.payload.obj
           => \E i \in FramesOf(t.n) :
                  /\ sent[i].topic = t.payload.obj.reply_to
                  /\ sent[i].payload.obj.status = "error"
                  /\ sent[i].payload.obj.error = <<"malformed request">>

\* ------------------------------------------------------------ invoke_parallel
\* C20: invoke_parallel never raises because a member call failed; it
\* returns a list with one place per request, in the order of the requests,
\* and place i holds the content of the response with the request_id of
\* request i, or the error with which the invoke of request i ended.
C20_ParallelResultsInPlace ==
    /\ gather.state # "raised"
    /\ gather.state = "returned" =>
          /\ Len(gather.results) = NumCalls
          /\ \A c \in Calls :
                LET r == gather.results[c]
                IN /\ r[1] \in {"ok", "SkillError", "Timeout", "NotConnected",
                                "SendError", "Cancelled"}
                   /\ r[1] \in {"ok", "SkillError"} =>
                          /\ resolvedBy[c] # NoMsg
                          /\ Get(resolvedBy[c][2].obj, "request_id", NoId) = rid[c]
                   /\ r[1] = "ok" =>
                          /\ Get(resolvedBy[c][2].obj, "status", "") = "success"
                          /\ Get(resolvedBy[c][2].obj, "content", "") = r[2]
                   /\ r[1] = "SkillError" =>
                          /\ Get(resolvedBy[c][2].obj, "status", "") # "success"
                          /\ Get(resolvedBy[c][2].obj, "error", "") = r[2]
                   /\ r[1] = "Timeout" => resolvedBy[c] = NoMsg
                   /\ r[1] = "NotConnected" => rid[c] = NoId

\* the first request timed out and the second was answered
C20_Witness ==
    /\ gather.state = "returned"
    /\ gather.results[1][1] = "Timeout"
    /\ gather.results[2][1] = "ok"

\* ---------------------------------------------------------- later client claims
\* C21: invoke_sequential publishes a request only after every request
\* before it was answered with a success; at the first request that fails it
\* raises the error of that request and none of the requests after it is
\* published; when none fails it returns the contents in order.
C21_SequentialStopsAtFirstError ==
    seq.state # "idle" =>
        /\ \A c \in Calls :
               pc[c] # "idle" =>
                   \A i \in Calls :
                       i < c => /\ result[i][1] = "ok"
                                /\ resolvedBy[i] # NoMsg
                                /\ Get(resolvedBy[i][2].obj, "status", "") = "success"
        /\ seq.state = "raised" =>
               \E c \in Calls :
                   /\ result[c][1] \notin {"none", "ok"}
                   /\ seq.error = result[c]
                   /\ \A d \in Calls :
                          d > c => /\ pc[d] = "idle"
                                   /\ rid[d] = NoId
                   /\ \A p \in published : \E i \in Calls : i <= c /\ p.request_id = rid[i]
        /\ seq.state = "returned" =>
               /\ Len(seq.results) = NumCalls
               /\ \A c \in Calls :
                      /\ resolvedBy[c] # NoMsg
                      /\ seq.results[c] = Get(resolvedBy[c][2].obj, "content", "")

\* the first request was answered with an error status: invoke_sequential
\* raised it and the second request was never published
C21_Witness ==
    /\ seq.state = "raised"
    /\ seq.error[1] = "SkillError"
    /\ result[1][1] = "SkillError"
    /\ pc[2] = "idle"
    /\ Cardinality(published) = 1

\* the futures of the calls whose pending entry is in the set ids
WaitersOf(ids) == {pending[r].call : r \in ids}

\* C22: a run of gc_stale removes from the pending table exactly the entries
\* that are older than stale_multiplier times default_timeout and cancels
\* their waiters that are not done; every other entry stays as it is, and no
\* other waiter is touched.
C22_GcRemovesExactlyStale ==
    [][GcStale =>
          LET old == {r \in DOMAIN pending :
                         pending[r].age > StaleMultiplier * DefaultTimeout}
          IN /\ DOMAIN pending' = (DOMAIN pending) \ old
             /\ \A r \in DOMAIN pending' : pending'[r] = pending[r]
             /\ \A c \in Calls :
                    IF c \in WaitersOf(old) /\ fut[c] = "pending"
                    THEN fut'[c] = "cancelled"
                    ELSE fut'[c] = fut[c]
             /\ futVal' = futVal]_vars

\* gc_stale has cancelled the waiter of an entry that was too old while an
\* entry at the threshold is still in the table, its waiter pending
C22_Witness ==
    \E c, d \in Calls :
        /\ fut[c] = "cancelled" /\ pc[c] = "waiting" /\ left[c] > 0
        /\ rid[c] \notin DOMAIN pending
        /\ rid[d] \in DOMAIN pending
        /\ pending[rid[d]].age = StaleMultiplier * DefaultTimeout
        /\ fut[d] = "pending"

\* connect(), close() and connect() were called one after the other, each
\* after the one before it had returned, and no other connect() or close()
\* was: the listener of the first connect polled the sockets of the first
\* connect, close() closed those, and the second connect made new ones
Reconnected ==
    /\ lsock[1] = 1
    /\ sockState[1] = "closed"
    /\ cur = 2
    /\ \A j \in Closers : j > 1 => clstate[j] = "idle"
    /\ \A k \in Conns : k > 2 => cstate[k] = "idle"

\* C23: after connect(), close(), connect() the client is connected, its
\* listener runs on the new SUB socket, which is subscribed to the same
\* reply_to as the first; the pending table is empty when the second
\* connect() returns and holds later only requests published on the new
\* sockets; such a request is resolved by a response with its request_id.
C23_ReconnectWorks ==
    /\ [](Reconnected /\ cstate[2] = "done" =>
            /\ running
            /\ listenerTask = 2 /\ lstate[2] = "polling" /\ lsock[2] = 2
            /\ sockState[2] = "open"
            /\ subs[2] = subs[1] /\ subs[2] = {ClientId}
            /\ \A r \in DOMAIN pending :
                   \E p \in published : p.request_id = r /\ p.sock = 2
            /\ \A c \in Calls :
                   result[c][1] = "ok" =>
                       Get(resolvedBy[c][2].obj, "request_id", NoId) = rid[c])
    /\ [][Reconnected' /\ cstate[2] = "sleeping" /\ cstate'[2] = "done" =>
             DOMAIN pending' = {}]_vars

\* a request made before close() was cancelled by it, and a request made
\* after the second connect() was answered
C23_Witness ==
    /\ Reconnected /\ cstate[2] = "done"
    /\ \E c, d \in Calls :
          /\ result[c][1] = "Cancelled"
          /\ result[d][1] = "ok"
          /\ \E p \in published : p.request_id = rid[d] /\ p.sock = 2

\* C24: a connect() called while the client is connected returns at once and
\* changes nothing: no socket is created, no listener is started, and the
\* reply topic, the pending table and the running listener are as before.
C24_ConnectWhenConnectedIsNoOp ==
    [][\A k \in Conns :
          running /\ cstate[k] = "idle" /\ cstate'[k] # "idle" =>
              /\ cstate'[k] = "done"
              /\ UNCHANGED <<running, sockVars, taskVars, pending>>
              /\ UNCHANGED <<fut, futVal, published>>]_vars

\* a second connect() has returned while the first one's sockets and
\* listener are the client's
C24_Witness ==
    \E k \in Conns :
        /\ cstate[k] = "done" /\ cur # k /\ cur # 0
        /\ running /\ listenerTask = cur /\ lstate[cur] = "polling"
        /\ sockState[cur] = "open" /\ sockState[k] = "none"

\* ==================================================================== proxy
\* The XPUB/XSUB proxy of tests/conftest.py with one publisher and the SUB
\* sockets of Subscribers.  A topic is a sequence of tokens; a subscription
\* is a prefix of topics.
ProxyTopics == {<<"TOPIC">>, <<"TOPIC", "A">>, <<"TOPIC", "B">>}
ProxyPrefixes == {<<"TOPIC">>, <<"TOPIC", "A">>, <<"TOPIC", "B">>}

\* the payload frame of the n-th published message
ProxyPayload(n) == <<"payload", n>>

\* the subscription filter of a socket: some prefix it holds begins the
\* first frame
Matches(filter, frame) == \E p \in filter : IsPrefix(p, frame)

\* a proxy loop that sends every frame as a message of its own
SendMoreNever(more) == FALSE

\* more = getsockopt(RCVMORE); send(msg, zmq.SNDMORE if more else 0)
SendMore(more) == more

\* sub.setsockopt(zmq.SUBSCRIBE, prefix) of a subscriber, arrived at the XPUB
\* socket: XPUB filters the subscriber's pipe by it and hands the
\* subscription message to the proxy loop
Subscribe(s, prefix) ==
    /\ xpubFilter[s] = {}
    /\ xpubFilter' = [xpubFilter EXCEPT ![s] = {prefix}]
    /\ xpubIn' = Append(xpubIn, prefix)
    /\ UNCHANGED <<upFilter, xsubIn, xpubOut, inbox, pubLog>>
    /\ UNCHANGED <<clientVars, srvVars>>

\* the proxy loop on XPUB: msg = xpub.recv(NOBLOCK); xsub.send(msg, ...).  A
\* subscription message has one frame; XSUB passes it to the publisher.
ProxyForwardSubscription ==
    /\ xpubIn # <<>>
    /\ upFilter' = upFilter \cup {Head(xpubIn)}
    /\ xpubIn' = Tail(xpubIn)
    /\ UNCHANGED <<xpubFilter, xsubIn, xpubOut, inbox, pubLog>>
    /\ UNCHANGED <<clientVars, srvVars>>

\* pub.send_multipart([topic, payload]) of the publisher: the PUB socket
\* sends the message to the proxy if a subscription it has learnt matches
\* the topic and drops it otherwise
ProxyPublish(topic) ==
    /\ Len(pubLog) < MaxMessages
    /\ LET n == Len(pubLog) + 1
           msg == <<topic, ProxyPayload(n)>>
       IN  /\ pubLog' = Append(pubLog, [msg |-> msg,
                                        filter |-> xpubFilter,
                                        propagated |-> xpubIn = <<>>])
           /\ xsubIn' = IF Matches(upFilter, topic)
                        THEN Append(xsubIn, msg) ELSE xsubIn
    /\ UNCHANGED <<xpubFilter, xpubIn, upFilter, xpubOut, inbox>>
    /\ UNCHANGED <<clientVars, srvVars>>

\* the proxy loop on XSUB, one frame: msg = xsub.recv(NOBLOCK);
\* more = getsockopt(RCVMORE); xpub.send(msg, SNDMORE if more else 0).
\* XPUB chooses the pipes by the first frame of a message and passes the
\* message on when its last frame is sent.
ProxyForwardFrame ==
    /\ xsubIn # <<>>
    /\ LET msg == Head(xsubIn)
           frame == Head(msg)
           more == Len(msg) > 1
           first == xpubOut.frames = <<>>
           to == IF first
                 THEN {s \in Subscribers : Matches(xpubFilter[s], frame)}
                 ELSE xpubOut.to
           frames == Append(xpubOut.frames, frame)
       IN  /\ xsubIn' = IF more THEN <<Tail(msg)>> \o Tail(xsubIn)
                        ELSE Tail(xsubIn)
           /\ IF SendMore(more)
              THEN /\ xpubOut' = [frames |-> frames, to |-> to]
                   /\ UNCHANGED inbox
              ELSE /\ xpubOut' = NoOut
                   /\ inbox' = [s \in Subscribers |->
                                  IF s \in to THEN Append(inbox[s], frames)
                                  ELSE inbox[s]]
    /\ UNCHANGED <<xpubFilter, xpubIn, upFilter, pubLog>>
    /\ UNCHANGED <<clientVars, srvVars>>

NextProxy ==
    \/ \E s \in Subscribers, prefix \in ProxyPrefixes : Subscribe(s, prefix)
    \/ ProxyForwardSubscription
    \/ \E topic \in ProxyTopics : ProxyPublish(topic)
    \/ ProxyForwardFrame

SpecProxy == Init /\ [][NextProxy]_vars

\* the proxy still holds the message, or frames of it
Forwarding(msg) ==
    \E i \in DOMAIN xsubIn : xsubIn[i][Len(xsubIn[i])] = msg[2]

\* how many times a subscriber received a message
RECURSIVE Received(_, _)
Received(box, msg) ==
    IF box = <<>> THEN 0
    ELSE (IF Head(box) = msg THEN 1 ELSE 0) + Received(Tail(box), msg)

\* C25: a two-frame message published after the subscriptions have gone
\* through the proxy is delivered, once the proxy has forwarded it, exactly
\* once and with both frames as published to every subscriber that held a
\* subscription which prefixes its topic (to all of them, not to one of
\* them); a subscriber without such a subscription never receives it, and
\* no subscriber receives anything that was not published.
C25_ProxyDeliversToAllMatching ==
    /\ \A i \in DOMAIN pubLog : \A s \in Subscribers :
          LET e == pubLog[i] IN
          /\ e.propagated /\ Matches(e.filter[s], e.msg[1]) /\ ~Forwarding(e.msg)
                => Received(inbox[s], e.msg) = 1
          /\ ~Matches(xpubFilter[s], e.msg[1])
                => Received(inbox[s], e.msg) = 0
    /\ \A s \in Subscribers : \A j \in DOMAIN inbox[s] :
          \E i \in DOMAIN pubLog : inbox[s][j] = pubLog[i].msg

\* a message went to two subscribers whose subscriptions prefix its topic
\* and not to a third whose subscription does not
C25_Witness ==
    \E i \in DOMAIN pubLog : \E s, t, u \in Subscribers :
        LET e == pubLog[i] IN
        /\ s # t /\ e.propagated
        /\ Matches(e.filter[s], e.msg[1]) /\ Matches(e.filter[t], e.msg[1])
        /\ e.filter[u] # {} /\ ~Matches(xpubFilter[u], e.msg[1])
        /\ Received(inbox[s], e.msg) = 1 /\ Received(inbox[t], e.msg) = 1
        /\ Received(inbox[u], e.msg) = 0
        /\ Len(e.msg) = 2

\* a close() has begun and has not returned
Closing == \E j \in Closers : clstate[j] = "awaiting"

\* C26: from the moment close() has begun no waiter is resolved any more: a
\* future that is pending while close() runs stays pending or is cancelled
\* (by close() or by its timeout); it never gets a result or a skill error.
C26_NoResolutionOnceClosing ==
    [][\A c \in Calls :
          Closing /\ fut[c] = "pending" => fut'[c] \in {"pending", "cancelled"}]_vars

\* the message is a response whose request_id is not in the pending table
UnknownResponse(m) ==
    /\ Len(m) >= 2 /\ m[2].json = "object"
    /\ Get(m[2].obj, "request_id", NoId) \notin DOMAIN pending

\* C27: a response whose request_id is not in the pending table (never
\* issued, already resolved, or timed out) changes neither the table nor any
\* waiter, and the listener goes on polling.  Stated from the other side: a
\* step that changes the table or a waiter, or ends a listener of a connected
\* client, is not the receipt of such a response.
C27_UnknownIdChangesNothing ==
    [][\A t \in Conns :
          \/ ~UNCHANGED <<pending, fut, futVal, completions, resolvedBy>>
          \/ running /\ lstate[t] = "polling" /\ lstate'[t] # "polling"
          => \A m \in Arriving(published) :
                 ~(UnknownResponse(m) /\ ListenerRecv(t, m))]_vars

\* the response to a call that had timed out was received as unknown while
\* another call's waiter was pending, and still is
C27_Witness ==
    \E c, d \in Calls :
        /\ late[c][1] = "unknown_request_id"
        /\ rid[d] \in DOMAIN pending /\ fut[d] = "pending" /\ pc[d] = "waiting"
        /\ \E t \in Conns : lstate[t] = "polling"

\* the fields a response must carry
RequiredFields == {"request_id", "status"}

\* fewer than two frames, a payload that is not JSON, or a JSON object that
\* lacks a required field
BadMessage(m) ==
    \/ Len(m) < 2
    \/ m[2].json = "invalid"
    \/ m[2].json = "object" /\ ~(RequiredFields \subseteq DOMAIN m[2].obj)

\* C28: a bad message is dropped: its receipt resolves, rejects and removes
\* no pending entry, and the listener keeps running.  Stated from the other
\* side: a step that changes the table or a waiter, or ends a listener of a
\* connected client, is not the receipt of a bad message.
C28_BadMessageIsDropped ==
    [][\A t \in Conns :
          \/ ~UNCHANGED <<pending, fut, futVal, completions, resolvedBy>>
          \/ running /\ lstate[t] = "polling" /\ lstate'[t] # "polling"
          => \A m \in Arriving(published) :
                 ~(BadMessage(m) /\ ListenerRecv(t, m))]_vars

\* C29: when the listener ends on a socket error, the client is closed by
\* that (is_connected is false, so that later invokes raise NotConnected)
\* and every waiter then pending is cancelled.
C29_ListenerFailureClosesClient ==
    [][\A t \in Conns :
          lstate[t] # "failed" /\ lstate'[t] = "failed" =>
              /\ ~running'
              /\ \A c \in Calls : fut[c] = "pending" => fut'[c] = "cancelled"]_vars

\* every pipe of the dispatch queue is full
QueueFull == Live # {} /\ Room = {}

\* the messages queued for the workers, by their order of arrival
Undelivered(q) == UNION {{q[w][i].n : i \in DOMAIN q[w]} : w \in Workers}

\* C30: when a message arrives while the dispatch queue is full, the
\* dispatcher does not block: it goes on polling, the message that arrived
\* is queued, and the oldest message that was queued is dropped for it.
C30_FullQueueDropsOldest ==
    [][QueueFull /\ arrived' = arrived + 1 =>
          /\ dstate' # "blocked"
          /\ arrived' \in Undelivered(pipe')
          /\ Min(Undelivered(pipe)) \notin Undelivered(pipe')]_vars

\* C31: the workers take the requests up in the order of their arrival: when
\* a worker has started on a request, every request the dispatcher received
\* before it has been started on by some worker.
C31_TakenInArrivalOrder ==
    \A t \in taken : \A n \in 1..(t.n - 1) : WasTaken(n)

\* the dispatcher has handed the n-th request to the queue of a worker
HandedOver(n) == n \in 1..arrived /\ (held = <<>> \/ held[1].n # n)

\* C32: once the stop flag is set the workers drain the queue before they
\* exit: when every worker has exited, every request the dispatcher had
\* handed to the queue has been processed and answered.
C32_QueueDrainedAtExit ==
    (\A w \in Workers : wstate[w] = "exited") =>
        \A n \in 1..arrived : HandedOver(n) => WasTaken(n) /\ FramesOf(n) # {}

\* the skill executables that were started and have not ended
Running == {r \in runs : \A x \in ended : x.n # r.n}

\* C33: at every moment at most as many skill executables run on the server
\* as it has workers, however many requests have arrived.
C33_RunsBoundedByPool == Cardinality(Running) <= NumWorkers

\* every worker runs an executable while further requests are queued
C33_Witness ==
    /\ Cardinality(Running) = NumWorkers
    /\ arrived > NumWorkers
    /\ \E w \in Workers : pipe[w] # <<>>

\* =================================================== the dispatcher's frames
\* The main loop of the server frame by frame.  The k-th message a publisher
\* sends on the server's topic has the frames TopicFrame(k), PayloadFrame(k),
\* or the first of them alone.
TopicFrame(k) == <<"topic", k>>
PayloadFrame(k) == <<"payload", k>>

\* payload_msg = sub.recv(zmq.NOBLOCK): the next frame the socket holds,
\* whatever message it belongs to; zmq.Again when it holds none
SecondFrame(q) == IF Len(q) > 1 THEN <<q[2]>> ELSE <<>>

\* a message of one or two frames reaches the SUB socket, all of it at once
FrameArrival(frames) ==
    /\ srvRunning
    /\ subCount < MaxFrameMessages
    /\ subCount' = subCount + 1
    /\ subIn' = subIn \o (IF frames = 2
                          THEN <<TopicFrame(subCount + 1), PayloadFrame(subCount + 1)>>
                          ELSE <<TopicFrame(subCount + 1)>>)
    /\ UNCHANGED pushed
    /\ UNCHANGED <<clientVars, proxyVars, srvRunning, skills, dstate, arrived, rr,
                   pipe, wstate, wjob, taken, runs, sent, ended, held>>

\* one turn of the main loop in which sub.poll reported input: two frames
\* are received and sent on PUSH as one message; when the second recv raises
\* zmq.Again the loop continues and the first frame is gone
DispatchFrames ==
    /\ srvRunning /\ dstate = "polling"
    /\ subIn # <<>>
    /\ LET second == SecondFrame(subIn) IN
       IF second = <<>>
       THEN /\ subIn' = Tail(subIn)
            /\ UNCHANGED pushed
       ELSE /\ subIn' = Tail(Tail(subIn))
            /\ pushed' = Append(pushed, <<Head(subIn), second[1]>>)
    /\ UNCHANGED subCount
    /\ UNCHANGED <<clientVars, proxyVars, srvRunning, skills, dstate, arrived, rr,
                   pipe, wstate, wjob, taken, runs, sent, ended, held>>

NextFrames ==
    \/ \E frames \in {1, 2} : FrameArrival(frames)
    \/ DispatchFrames

SpecFrames == InitServer /\ [][NextFrames]_vars

\* C34: a message of fewer than two frames is discarded and disturbs no
\* other: every message the dispatcher hands to the workers is the topic
\* frame and the payload frame of one and the same message.
C34_FramesOfOneMessage ==
    \A i \in DOMAIN pushed :
        \E k \in 1..subCount : pushed[i] = <<TopicFrame(k), PayloadFrame(k)>>

\* ================================================================ discovery
\* str.upper() and str.replace('-', '_') on one character
UpperChar(ch) == IF ch = "a" THEN "A" ELSE IF ch = "b" THEN "B"
                 ELSE IF ch = "c" THEN "C" ELSE ch
DashToUnderscore(ch) == IF ch = "-" THEN "_" ELSE ch

\* topic = f"TOPIC_{category.upper().replace('-', '_')}"
TopicOf(category) ==
    <<"TOPIC_">> \o [i \in DOMAIN category |-> DashToUnderscore(UpperChar(category[i]))]

\* d[k] = v
Put(d, k, v) == [x \in DOMAIN d \cup {k} |-> IF x = k THEN v ELSE d[x]]

\* the SkillMetadata _parse_skill_md returns for the i-th entry
MetaOf(t, i) == [name |-> t[i], topic |-> TopicOf(Entries[i][1]), skill_dir |-> i]

\* the body of scan()'s inner loop for the i-th entry, and, after the last
\* entry of a category, "if topic_meta.skills: self._topics[topic] = topic_meta"
AfterEntry(t, st, i) ==
    LET category == Entries[i][1]
        parsed == t[i] # NoName
        skills1 == IF parsed THEN Put(st.skills, t[i], MetaOf(t, i)) ELSE st.skills
        meta1 == IF parsed THEN Append(st.meta, MetaOf(t, i)) ELSE st.meta
        lastOfCategory == i = Len(Entries) \/ Entries[i + 1][1] # category
        topics1 == IF lastOfCategory /\ meta1 # <<>>
                   THEN Put(st.topics, TopicOf(category), meta1) ELSE st.topics
    IN [skills |-> skills1, topics |-> topics1,
        meta |-> IF lastOfCategory THEN <<>> ELSE meta1]

\* what a scan() of the tree t leaves when it has run from entry i to its end
RECURSIVE ScanFrom(_, _, _)
ScanFrom(t, st, i) ==
    IF i > Len(Entries) THEN [skills |-> st.skills, topics |-> st.topics]
    ELSE ScanFrom(t, AfterEntry(t, st, i), i + 1)

ScanResult(t) == ScanFrom(t, [skills |-> EmptyDict, topics |-> EmptyDict, meta |-> <<>>], 1)

\* scan() up to its loop: self._skills.clear(); self._topics.clear().  The
\* skills root holds the tree t.
ScanBegin(t) ==
    /\ scanAt = 0
    /\ scans < MaxScans
    /\ scans' = scans + 1
    /\ tree' = t
    /\ discSkills' = EmptyDict
    /\ discTopics' = EmptyDict
    /\ topicMeta' = <<>>
    /\ scanAt' = 1
    /\ UNCHANGED <<lastScan, seen>>
    /\ UNCHANGED <<running, sockVars, taskVars, pending, callVars, lifeVars,
                   published, gather, seq, srvVars, proxyVars>>

\* scan() handles one skill directory; after the last one it returns
ScanEntry ==
    /\ scanAt # 0
    /\ LET st == AfterEntry(tree, [skills |-> discSkills, topics |-> discTopics,
                                   meta |-> topicMeta], scanAt)
           done == scanAt = Len(Entries)
       IN /\ discSkills' = st.skills
          /\ discTopics' = st.topics
          /\ topicMeta' = st.meta
          /\ scanAt' = IF done THEN 0 ELSE scanAt + 1
          /\ lastScan' = IF done THEN [skills |-> st.skills, topics |-> st.topics]
                         ELSE lastScan
    /\ UNCHANGED <<tree, scans, seen>>
    /\ UNCHANGED <<running, sockVars, taskVars, pending, callVars, lifeVars,
                   published, gather, seq, srvVars, proxyVars>>

\* list_skills()
list_skills(d) == {d[n] : n \in DOMAIN d}

\* skills_for_topic(topic): [s for s in self._skills.values() if s.topic == topic]
skills_for_topic(d, topic) == {m \in list_skills(d) : m.topic = topic}

\* get_topic(topic).skills; no skills when get_topic returns None
get_topic(d, topic) ==
    IF topic \in DOMAIN d THEN {d[topic][i] : i \in DOMAIN d[topic]} ELSE {}

\* get_skill(name) is the skill m
get_skill(d, name, m) == name \in DOMAIN d /\ d[name] = m

\* another thread queries the structure: list_skills() and
\* list_topic_metadata()
Read ==
    /\ scans > 0
    /\ seen' = [skills |-> discSkills, topics |-> discTopics, last |-> lastScan,
                new |-> ScanResult(tree), during |-> scanAt # 0]
    /\ seen' # seen
    /\ UNCHANGED <<tree, discSkills, discTopics, scanAt, topicMeta, scans, lastScan>>
    /\ UNCHANGED <<running, sockVars, taskVars, pending, callVars, lifeVars,
                   published, gather, seq, srvVars, proxyVars>>

NextDiscovery ==
    \/ \E t \in Trees : ScanBegin(t)
    \/ ScanEntry
    \/ Read

SpecDiscovery == Init /\ [][NextDiscovery]_vars

\* C35: a reader that queries the structure while scan() runs gets the whole
\* result of the scan before or the whole result of the scan that runs,
\* never an empty or a half-filled structure.
C35_ReaderSeesWholeResult ==
    seen.during =>
        \/ seen.skills = seen.last.skills /\ seen.topics = seen.last.topics
        \/ seen.skills = seen.new.skills /\ seen.topics = seen.new.topics

\* the topics of the entries
AllTopics == {TopicOf(Entries[i][1]) : i \in DOMAIN Entries}

\* C40: after a scan(), for every topic the skills skills_for_topic returns
\* are exactly the skills of get_topic, and every skill listed under a topic
\* is what get_skill returns for its name, with that topic.
C40_TopicsAgreeWithSkills ==
    scanAt = 0 /\ scans > 0 =>
        \A topic \in AllTopics :
            /\ skills_for_topic(discSkills, topic) = get_topic(discTopics, topic)
            /\ \A m \in get_topic(discTopics, topic) :
                   get_skill(discSkills, m.name, m) /\ m.topic = topic

\* C36: when an invoke call has ended, by a result, a SkillError, its
\* timeout, a failure of the publish or the cancellation of its caller, the
\* pending table no longer holds its request_id.
C36_EndedInvokeLeavesNoEntry ==
    \A c \in Calls : pc[c] = "done" /\ rid[c] # NoId => rid[c] \notin DOMAIN pending

\* C37: gc_stale() does not cancel the future of an invoke call whose own
\* timeout has not expired yet: a call with a timeout above
\* stale_multiplier * default_timeout keeps waiting through a gc_stale().
C37_GcSparesUnexpiredCalls ==
    [][GcStale =>
         \A c \in Calls :
             pc[c] = "waiting" /\ left[c] > 0 => fut'[c] = fut[c]]_vars

\* the listener tasks that have not finished, and the socket pairs not closed
LiveListeners == {t \in Conns : lstate[t] \in {"polling", "cancelling"}}
OpenPairs == {k \in Conns : sockState[k] = "open"}

\* C38: a client has at most one listener task and at most one PUB/SUB socket
\* pair at any time, also when connect() calls overlap or close() runs during
\* the settle sleep of a connect().
C38_OneListenerOnePair ==
    Cardinality(LiveListeners) <= 1 /\ Cardinality(OpenPairs) <= 1

\* C39: no request payload ends a worker: when a worker takes a JSON
\* envelope that has request_id, reply_to and intent, of whatever JSON
\* types, it is back in its loop or executing afterwards, so the live
\* workers stay as many as the pool.
C39_WellFormedNeverEndsWorker ==
    [][\A w \in Workers :
          /\ wstate[w] = "polling" /\ pipe[w] # <<>>
          /\ WellFormed(Head(pipe[w]).payload)
          => wstate'[w] # "crashed"]_vars

====
